---- MODULE Spec2Model ----
(***************************************************************************)
(* A model of AbnoGuard's multi-object tracker (tracker.py), abandoned-    *)
(* object detector (logic_abandonment.py) and movement-anomaly detector    *)
(* (logic_anomaly.py).                                                     *)
(*                                                                         *)
(* Lengths.  Bounding boxes are <<x1, y1, x2, y2>> on an integer grid; one *)
(* grid step is unit pixels, fixed for a run (coarse for the runs that     *)
(* need distances of hundreds of pixels, one pixel for the runs that need  *)
(* moves of a few pixels).  Centres (x1+x2)/2 are kept doubled, as x1+x2,  *)
(* so that they stay integers.                                             *)
(* Time.  time.time() is the variable now, in whole seconds; it never runs *)
(* backwards.                                                              *)
(* Scores.  The matching score of tracker.py is a float; here it is the    *)
(* exact fraction n/(16000*d), see Score.                                  *)
(***************************************************************************)
EXTENDS Integers, Sequences, FiniteSets, TLC

VARIABLES
    unit,             \* pixels per grid step of the boxes of this run
    \* ---- ObjectTracker (tracker.py) ----
    max_age,          \* self.max_age
    n_init,           \* self.n_init
    tracks,           \* self.tracks: track_id -> track record
    next_id,          \* self.next_id
    frame_count,      \* self.frame_count
    \* ---- the clock and the list handed from the tracker to the detectors ----
    now,              \* the last reading of time.time()
    tracked_objects,  \* the tracked-object list of the last update call
    \* ---- AbandonmentDetector (logic_abandonment.py) ----
    abandonment_threshold,       \* self.abandonment_threshold
    object_person_associations,  \* self.object_person_associations
    abandoned_objects,           \* self.abandoned_objects
    alerted_objects,             \* self.alerted_objects
    alerts,                      \* the list the last update call returned
    \* ---- AnomalyDetector (logic_anomaly.py) ----
    speed_threshold,       \* self.speed_threshold
    loitering_threshold,   \* self.loitering_threshold
    movement_history,      \* self.movement_history: track_id -> samples
    alerted_tracks,        \* self.alerted_tracks
    anomaly_alerts,        \* the list the last update call returned
    \* ---- the two detectors' update calls of one frame, run side by side ----
    ab_i,             \* index of the object AbandonmentDetector.update is at
    an_i,             \* index of the object AnomalyDetector.update is at
    \* ---- history of the run, read only by the properties ----
    detections,       \* the detection list of the last ObjectTracker.update
    prev_tracks,      \* self.tracks as it was before the last ObjectTracker.update
    assigned,         \* detection index -> id of the track it updated or created
    allocated,        \* every track id handed out so far, in order
    prev_next_id,     \* self.next_id as it was before the last ObjectTracker.update
    streak,           \* track_id -> [born, unbroken]: creation frame, matched ever since
    separated_since,  \* bag track_id -> start of its current no-person run
    emitted,          \* every abandoned_object alert returned so far, in order
    observed,         \* bag track_id -> time of every update call whose list held it
    prev_associations,  \* the association records before the last update call
    anomaly_calls,    \* the number of AnomalyDetector.update calls so far
    arrivals,         \* person track_id -> every sample appended for it, in order
    anomaly_emitted,  \* every anomaly alert returned so far, with its call number
    at_reset,         \* the call count and the histories at the last reset_alerts
    frame_start       \* the list and the components' state when the frame began

trackerVars == <<max_age, n_init, tracks, next_id, frame_count>>
detectorVars == <<abandonment_threshold, object_person_associations,
                  abandoned_objects, alerted_objects, alerts>>
trackerHistory == <<detections, prev_tracks, assigned, allocated, prev_next_id,
                    streak>>
detectorHistory == <<separated_since, emitted, observed, prev_associations>>
anomalyVars == <<speed_threshold, loitering_threshold, movement_history,
                 alerted_tracks, anomaly_alerts>>
anomalyHistory == <<anomaly_calls, arrivals, anomaly_emitted, at_reset>>
frameVars == <<ab_i, an_i, frame_start>>
vars == <<unit, trackerVars, now, tracked_objects, detectorVars, anomalyVars,
          trackerHistory, detectorHistory, anomalyHistory, frameVars>>

(***************************************************************************)
(* Bounds of the model.                                                    *)
(***************************************************************************)
Unit == 100          \* pixels per grid step of the coarse runs
MaxFrames == 4       \* ObjectTracker.update calls in a run
MaxNInit == 3        \* n_init is drawn from 1..MaxNInit
MaxMaxAge == 1       \* max_age is drawn from 0..MaxMaxAge
MaxTime == 6         \* AbandonmentDetector.update is called up to time MaxTime
MaxDt == 3           \* seconds between two AbandonmentDetector.update calls
MaxThreshold == 2    \* abandonment_threshold is drawn from 1..MaxThreshold
Pixel == 1           \* pixels per grid step of the fine runs
MaxMove == 3         \* grid steps a box moves between two frames of a fine run
MaxCalls == 11       \* AnomalyDetector.update calls in a run
MaxSamples == 32     \* AnomalyDetector.update calls in a long run
MaxSpan == 2         \* seconds a long run lasts
MaxPipelineFrames == 6   \* frames handed to the two detectors side by side
MaxMatchingFrames == 3   \* ObjectTracker.update calls in a run on crowded frames
MaxPeriod == 2       \* seconds between two calls of an evenly sampled run
MaxVideoFrames == 5  \* frames of a run of the whole pipeline
MaxResetCalls == 7   \* AnomalyDetector.update calls in a run with resets

(***************************************************************************)
(* Defaults of the constructors.  proximity_threshold is never passed by a *)
(* caller in the repository and is kept at its default.                    *)
(***************************************************************************)
DefaultMaxAge == 30
DefaultNInit == 3
DefaultAbandonmentThreshold == 5
proximity_threshold == 100
DefaultSpeedThreshold == 30
DefaultLoiteringThreshold == 15

(***************************************************************************)
(* Helpers on finite sets, functions and sequences.                        *)
(***************************************************************************)
Min(S) == CHOOSE x \in S : \A y \in S : x <= y

RECURSIVE SortedIds(_)
\* The keys of a dict in iteration order.  self.tracks is rebuilt on every
\* update from the surviving tracks in their old order followed by the new
\* tracks, whose ids are larger: insertion order is ascending id order.
SortedIds(S) ==
    IF S = {} THEN <<>>
    ELSE LET m == Min(S) IN <<m>> \o SortedIds(S \ {m})

Put(f, k, v) == [x \in DOMAIN f \cup {k} |-> IF x = k THEN v ELSE f[x]]

EmptyMap == [x \in {} |-> 0]

Range(s) == {s[i] : i \in DOMAIN s}

Last(seq) == seq[Len(seq)]

\* np.sqrt, exact: the boxes of the model are placed so that every centre
\* distance is a whole number of half grid steps (no value exists otherwise).
Sqrt(n) == CHOOSE r \in 0..n : r * r = n

(***************************************************************************)
(* tracker.py: geometry and score.                                         *)
(***************************************************************************)
Max2(a, b) == IF a >= b THEN a ELSE b
Min2(a, b) == IF a <= b THEN a ELSE b

\* Variant: the test for an empty intersection left out.
IoU_NoEmptyTest(bbox1, bbox2) ==
    LET x1_i == Max2(bbox1[1], bbox2[1])
        y1_i == Max2(bbox1[2], bbox2[2])
        x2_i == Min2(bbox1[3], bbox2[3])
        y2_i == Min2(bbox1[4], bbox2[4])
        intersection == (x2_i - x1_i) * (y2_i - y1_i)
        area1 == (bbox1[3] - bbox1[1]) * (bbox1[4] - bbox1[2])
        area2 == (bbox2[3] - bbox2[1]) * (bbox2[4] - bbox2[2])
        union == area1 + area2 - intersection
    IN  IF union > 0 THEN [n |-> intersection, d |-> union]
        ELSE [n |-> 0, d |-> 1]
\* _iou, as the fraction [n, d] with d > 0 (in grid steps squared; the ratio
\* does not depend on unit).
IoU(bbox1, bbox2) ==
    LET x1_i == Max2(bbox1[1], bbox2[1])
        y1_i == Max2(bbox1[2], bbox2[2])
        x2_i == Min2(bbox1[3], bbox2[3])
        y2_i == Min2(bbox1[4], bbox2[4])
        intersection == (x2_i - x1_i) * (y2_i - y1_i)
        area1 == (bbox1[3] - bbox1[1]) * (bbox1[4] - bbox1[2])
        area2 == (bbox2[3] - bbox2[1]) * (bbox2[4] - bbox2[2])
        union == area1 + area2 - intersection
    IN  IF x2_i < x1_i \/ y2_i < y1_i THEN [n |-> 0, d |-> 1]
        ELSE IF union > 0 THEN [n |-> intersection, d |-> union]
        ELSE [n |-> 0, d |-> 1]

\* _distance, doubled and in grid steps: the centre distance in pixels is
\* unit * Distance2(bbox1, bbox2) / 2.
Distance2(bbox1, bbox2) ==
    LET dx == (bbox1[1] + bbox1[3]) - (bbox2[1] + bbox2[3])
        dy == (bbox1[2] + bbox1[4]) - (bbox2[2] + bbox2[4])
    IN  Sqrt(dx * dx + dy * dy)

\* score = iou * 0.7 + (1 - distance / 800.0) * 0.3, as the fraction
\* n / (16000 * d):  0.7 * i.n / i.d + 0.3 * (1600 - unit * D2) / 1600.
Score(bbox1, bbox2) ==
    LET i == IoU(bbox1, bbox2)
        D2 == Distance2(bbox1, bbox2)
    IN  [n |-> 11200 * i.n + 3 * i.d * (1600 - unit * D2), d |-> i.d]

ScoreGt(a, b) == a.n * b.d > b.n * a.d

ZeroScore == [n |-> 0, d |-> 1]       \* best_score = 0
MinScore == [n |-> 4800, d |-> 1]     \* the minimum threshold 0.3

\* Variant: the class test left out.
ClassCompatible_Any(track, det) == TRUE
\* track['class_name'] == class_name
ClassCompatible(track, det) == track.class_name = det.class_name

\* Variant: a score of exactly 0.3 is accepted.
IsBetter_AtLeastMin(score, best_score) ==
    ScoreGt(score, best_score) /\ ~ScoreGt(MinScore, score)
\* Variant: an equal score replaces the best match found so far.
IsBetter_OrEqual(score, best_score) ==
    ~ScoreGt(best_score, score) /\ ScoreGt(score, MinScore)
\* if score > best_score and score > 0.3
IsBetter(score, best_score) ==
    ScoreGt(score, best_score) /\ ScoreGt(score, MinScore)

RECURSIVE BestMatchFrom(_, _, _, _, _, _)
\* The loop over enumerate(detection_bboxes) for one track, from index i on.
\* Index 0 stands for best_match = None (Python's indices are these minus 1).
BestMatchFrom(track, dets, matched, i, best_match, best_score) ==
    IF i > Len(dets) THEN best_match
    ELSE IF i \in matched
        THEN BestMatchFrom(track, dets, matched, i + 1, best_match, best_score)
    ELSE IF ClassCompatible(track, dets[i])
        THEN LET score == Score(track.bbox, dets[i].bbox)
             IN  IF IsBetter(score, best_score)
                 THEN BestMatchFrom(track, dets, matched, i + 1, i, score)
                 ELSE BestMatchFrom(track, dets, matched, i + 1, best_match,
                                    best_score)
    ELSE BestMatchFrom(track, dets, matched, i + 1, best_match, best_score)

BestMatch(track, dets, matched) ==
    BestMatchFrom(track, dets, matched, 1, 0, ZeroScore)

\* Variant: old tracks are never dropped.
Expired_Never(track, maxAge) == FALSE
\* if track['lost'] > self.max_age: continue
Expired(track, maxAge) == track.lost > maxAge

\* Variant: the track keeps its old confidence.
UpdateTrack_KeepConfidence(track, det) ==
    [track EXCEPT !.bbox = det.bbox, !.lost = 0, !.hits = @ + 1]
\* Variant: the track keeps its old box.
UpdateTrack_KeepBox(track, det) ==
    [track EXCEPT !.confidence = det.conf, !.lost = 0, !.hits = @ + 1]
\* track['bbox'] = ..., track['confidence'] = conf, track['lost'] = 0,
\* track['hits'] += 1
UpdateTrack(track, det) ==
    [track EXCEPT !.bbox = det.bbox, !.confidence = det.conf, !.lost = 0,
                  !.hits = @ + 1]

\* Variant: the lost counter is left as it is.
MissTrack_Stuck(track) == track
\* Variant: an unmatched frame resets the hits.
MissTrack_ForgetHits(track) == [track EXCEPT !.lost = @ + 1, !.hits = 0]
\* track['lost'] += 1
MissTrack(track) == [track EXCEPT !.lost = @ + 1]

\* Variant: a taken detection is not remembered.
MarkMatched_Forget(matched, i) == matched
\* matched_detections.add(best_match)
MarkMatched(matched, i) == matched \cup {i}

RECURSIVE MatchLoop(_, _, _, _, _)
\* The loop over self.tracks.items(); acc holds updated_tracks,
\* matched_detections and, for the properties, which track took which
\* detection.
MatchLoop(ids, trks, dets, maxAge, acc) ==
    IF ids = <<>> THEN acc
    ELSE LET id == Head(ids)
             track == trks[id]
             best_match == BestMatch(track, dets, acc.matched)
         IN  IF Expired(track, maxAge)
             THEN MatchLoop(Tail(ids), trks, dets, maxAge, acc)
             ELSE IF best_match # 0
             THEN MatchLoop(Tail(ids), trks, dets, maxAge,
                    [acc EXCEPT
                       !.updated = Put(@, id, UpdateTrack(track, dets[best_match])),
                       !.matched = MarkMatched(@, best_match),
                       !.assigned = Put(@, best_match, id)])
             ELSE MatchLoop(Tail(ids), trks, dets, maxAge,
                    [acc EXCEPT !.updated = Put(@, id, MissTrack(track))])

\* Variant: the creating detection does not count as a hit.
NewTrack_NoHit(det, t) ==
    [bbox |-> det.bbox, class_name |-> det.class_name, confidence |-> det.conf,
     hits |-> 0, lost |-> 0, start_time |-> t]
\* new_track
NewTrack(det, t) ==
    [bbox |-> det.bbox, class_name |-> det.class_name, confidence |-> det.conf,
     hits |-> 1, lost |-> 0, start_time |-> t]

\* Variant: the increment left out.
NextIdAfter_Stuck(id) == id
\* self.next_id += 1
NextIdAfter(id) == id + 1

RECURSIVE CreateTracks(_, _, _, _)
\* The loop that creates a track for every unmatched detection, from index i
\* on; acc also carries next_id and the ids handed out.
CreateTracks(dets, i, t, acc) ==
    IF i > Len(dets) THEN acc
    ELSE IF i \in acc.matched THEN CreateTracks(dets, i + 1, t, acc)
    ELSE CreateTracks(dets, i + 1, t,
           [acc EXCEPT !.updated = Put(@, acc.next_id, NewTrack(dets[i], t)),
                       !.assigned = Put(@, i, acc.next_id),
                       !.created = Append(@, acc.next_id),
                       !.next_id = NextIdAfter(@)])

\* Variant: every track is returned.
IsConfirmed_Always(track, nInit) == TRUE
\* Variant: a confirmed track is hidden as soon as it goes unmatched.
IsConfirmed_NotLost(track, nInit) == track.hits >= nInit /\ track.lost = 0
\* if track['hits'] >= self.n_init
IsConfirmed(track, nInit) == track.hits >= nInit

TrackedObject(id, track) ==
    [track_id |-> id, bbox |-> track.bbox, class_name |-> track.class_name,
     confidence |-> track.confidence]

RECURSIVE ConfirmedFrom(_, _, _)
ConfirmedFrom(ids, trks, nInit) ==
    IF ids = <<>> THEN <<>>
    ELSE LET id == Head(ids)
             rest == ConfirmedFrom(Tail(ids), trks, nInit)
         IN  IF IsConfirmed(trks[id], nInit)
             THEN <<TrackedObject(id, trks[id])>> \o rest
             ELSE rest

\* The list ObjectTracker.update returns.
ConfirmedTracks(trks, nInit) == ConfirmedFrom(SortedIds(DOMAIN trks), trks, nInit)

\* ObjectTracker.update as a function of the tracker's state.
TrackerResult(trks, nextId, dets, maxAge, t) ==
    LET m == MatchLoop(SortedIds(DOMAIN trks), trks, dets, maxAge,
                       [updated |-> EmptyMap, matched |-> {},
                        assigned |-> EmptyMap, created |-> <<>>,
                        next_id |-> nextId])
    IN  CreateTracks(dets, 1, t, m)

(***************************************************************************)
(* logic_abandonment.py.                                                   *)
(***************************************************************************)
None == -1        \* Python's None where a track id is expected
Infinity == -1    \* float('inf') in a record's distance

BagClasses == {"backpack", "handbag", "suitcase", "bag"}

\* ((x1 + x2) / 2, (y1 + y2) / 2), doubled.
Center2(bbox) == <<bbox[1] + bbox[3], bbox[2] + bbox[4]>>

\* _calculate_distance on doubled centres: the distance in pixels is
\* unit * CalculateDistance2(c1, c2) / 2.
CalculateDistance2(c1, c2) ==
    Sqrt((c2[1] - c1[1]) * (c2[1] - c1[1]) + (c2[2] - c1[2]) * (c2[2] - c1[2]))

\* distance < self.proximity_threshold
WithinProximity(c1, c2) ==
    unit * CalculateDistance2(c1, c2) < 2 * proximity_threshold

RECURSIVE CheckPersonProximityFrom(_, _, _)
\* _check_person_proximity: the id of the first person in list order whose
\* centre is within proximity of obj_center, or None.
CheckPersonProximityFrom(obj_center, objs, i) ==
    IF i > Len(objs) THEN None
    ELSE IF objs[i].class_name # "person"
        THEN CheckPersonProximityFrom(obj_center, objs, i + 1)
    ELSE IF WithinProximity(obj_center, Center2(objs[i].bbox))
        THEN objs[i].track_id
    ELSE CheckPersonProximityFrom(obj_center, objs, i + 1)

\* Variant: the id of the nearest person within proximity.
CheckPersonProximity_Nearest(obj_center, objs) ==
    LET within == {i \in DOMAIN objs :
                      /\ objs[i].class_name = "person"
                      /\ WithinProximity(obj_center, Center2(objs[i].bbox))}
    IN  IF within = {} THEN None
        ELSE objs[CHOOSE i \in within : \A k \in within :
                      CalculateDistance2(obj_center, Center2(objs[i].bbox))
                        <= CalculateDistance2(obj_center, Center2(objs[k].bbox))
                 ].track_id
CheckPersonProximity(obj_center, objs) ==
    CheckPersonProximityFrom(obj_center, objs, 1)

\* "if person_nearby:" is Python truthiness: neither None nor the id 0.
Truthy(person_nearby) == person_nearby # None /\ person_nearby # 0

RECURSIVE GetPersonPositionFrom(_, _, _)
\* _get_person_position: the centre of the first object carrying person_id,
\* or <<None, None>>.
GetPersonPositionFrom(person_id, objs, i) ==
    IF i > Len(objs) THEN <<None, None>>
    ELSE IF objs[i].track_id = person_id THEN Center2(objs[i].bbox)
    ELSE GetPersonPositionFrom(person_id, objs, i + 1)

\* Variant: the position is read from the anomaly detector's history.
GetPersonPosition_FromHistory(person_id, objs) ==
    IF person_id \in DOMAIN movement_history
    THEN Last(movement_history[person_id]).position
    ELSE GetPersonPositionFrom(person_id, objs, 1)
GetPersonPosition(person_id, objs) == GetPersonPositionFrom(person_id, objs, 1)

\* Variant: >= in place of >.
IsObjectAbandoned_AtLeast(track_id, current_time, associations, threshold) ==
    IF track_id \notin DOMAIN associations THEN FALSE
    ELSE IF associations[track_id] = <<>> THEN FALSE
    ELSE current_time - Last(associations[track_id]).timestamp >= threshold
\* Variant: the time is measured from the first record, not the last.
IsObjectAbandoned_FromFirst(track_id, current_time, associations, threshold) ==
    IF track_id \notin DOMAIN associations THEN FALSE
    ELSE IF associations[track_id] = <<>> THEN FALSE
    ELSE current_time - Head(associations[track_id]).timestamp > threshold
\* _is_object_abandoned: both branches on last_association['person_id']
\* measure the time since the last record.
IsObjectAbandoned(track_id, current_time, associations, threshold) ==
    IF track_id \notin DOMAIN associations THEN FALSE
    ELSE IF associations[track_id] = <<>> THEN FALSE
    ELSE LET last_association == Last(associations[track_id])
         IN  IF last_association.person_id # None
             THEN current_time - last_association.timestamp > threshold
             ELSE current_time - last_association.timestamp > threshold

\* _generate_abandonment_alert (the description string is left out; position
\* is the doubled centre).
GenerateAbandonmentAlert(track_id, class_name, center, timestamp) ==
    [timestamp |-> timestamp, type |-> "abandoned_object", track_id |-> track_id,
     position |-> center, object_type |-> class_name, severity |-> "medium"]

\* self.object_person_associations[track_id].append(record)
AppendRecord(associations, track_id, record) ==
    Put(associations, track_id,
        IF track_id \in DOMAIN associations
        THEN Append(associations[track_id], record)
        ELSE <<record>>)

\* The dummy entry that starts the abandonment timer.
Sentinel(timestamp) ==
    [timestamp |-> timestamp, person_id |-> None, distance |-> Infinity]

\* Variant: the dummy entry is added only to an object without a record.
StartTimer_OnlyFirst(associations, track_id, current_time) ==
    IF track_id \in DOMAIN associations /\ associations[track_id] # <<>>
    THEN associations
    ELSE AppendRecord(associations, track_id, Sentinel(current_time))
\* The else branch of "if self._is_object_abandoned(...)": the dummy entry is
\* appended whether or not the object has records.
StartTimer(associations, track_id, current_time) ==
    AppendRecord(associations, track_id, Sentinel(current_time))

\* Variant: the alerted set is not consulted.
AlreadyAlerted_Never(track_id, alerted) == FALSE
\* if track_id in self.alerted_objects: continue
AlreadyAlerted(track_id, alerted) == track_id \in alerted

\* One pass of the loop body of AbandonmentDetector.update for obj; st holds
\* the detector's three collections and the alerts list built so far.
ProcessObject(obj, objs, current_time, threshold, st) ==
    LET track_id == obj.track_id
        obj_center == Center2(obj.bbox)
        person_nearby == CheckPersonProximity(obj_center, objs)
        person_pos == GetPersonPosition(person_nearby, objs)
        \* a record's distance is kept doubled, like the centres: 2 * pixels
        distance == IF person_pos[1] # None
                    THEN unit * CalculateDistance2(obj_center, person_pos)
                    ELSE Infinity
    IN  IF obj.class_name \notin BagClasses THEN st
        ELSE IF AlreadyAlerted(track_id, st.alerted) THEN st
        ELSE IF Truthy(person_nearby)
        THEN [st EXCEPT
                !.associations =
                    AppendRecord(@, track_id,
                        [timestamp |-> current_time, person_id |-> person_nearby,
                         distance |-> distance]),
                !.abandoned = @ \ {track_id}]
        ELSE IF IsObjectAbandoned(track_id, current_time, st.associations, threshold)
        THEN IF track_id \notin st.abandoned
             THEN [st EXCEPT
                     !.abandoned = @ \cup {track_id},
                     !.alerts = Append(@, GenerateAbandonmentAlert(
                                   track_id, obj.class_name, obj_center, current_time)),
                     !.alerted = @ \cup {track_id}]
             ELSE st
        ELSE [st EXCEPT !.associations = StartTimer(@, track_id, current_time)]

RECURSIVE AbandonmentLoop(_, _, _, _, _)
AbandonmentLoop(objs, i, current_time, threshold, st) ==
    IF i > Len(objs) THEN st
    ELSE AbandonmentLoop(objs, i + 1, current_time, threshold,
                         ProcessObject(objs[i], objs, current_time, threshold, st))

\* AbandonmentDetector.update as a function of the detector's state.
AbandonmentResult(objs, current_time, threshold, associations, abandoned, alerted) ==
    AbandonmentLoop(objs, 1, current_time, threshold,
                    [associations |-> associations, abandoned |-> abandoned,
                     alerted |-> alerted, alerts |-> <<>>])

(***************************************************************************)
(* logic_anomaly.py.  Positions are doubled centres, step distances are    *)
(* doubled grid steps: a speed in pixels is unit * (a distance here) / 2.  *)
(* A check returns the list of its alerts: <<>> stands for None.           *)
(***************************************************************************)
HistoryCapacity == 30       \* deque(maxlen=30)
MinHistory == 5             \* len(history) < 5 in _check_anomalies
MinSpeedHistory == 3        \* len(history) < 3 in _check_speed_spike
MinLoiteringHistory == 10   \* len(history) < 10 in _check_loitering
LoiteringArea == 2000       \* area_covered < 2000
CounterflowWindow == 5      \* history[-5:]
counterflow_threshold == [n |-> 7, d |-> 10]   \* 0.7, never passed by a caller
expected_flow == <<1, 0>>

Sample(obj, current_time) ==
    [timestamp |-> current_time, position |-> Center2(obj.bbox), bbox |-> obj.bbox]

\* Variant: a plain list, which keeps everything.
AppendSample_Unbounded(history, sample) == Append(history, sample)
\* deque(maxlen=30).append: a full deque drops its oldest element.
AppendSample(history, sample) ==
    IF Len(history) >= HistoryCapacity THEN Append(Tail(history), sample)
    ELSE Append(history, sample)

Minus(a, b) == <<a[1] - b[1], a[2] - b[2]>>
Abs(x) == IF x < 0 THEN -x ELSE x
\* np.linalg.norm: the norm of a vector along an axis is read off, any other
\* is the exact root.
Norm2(v) ==
    IF v[2] = 0 THEN Abs(v[1])
    ELSE IF v[1] = 0 THEN Abs(v[2])
    ELSE Sqrt(v[1] * v[1] + v[2] * v[2])
MaxOf(S) == CHOOSE x \in S : \A y \in S : y <= x

RECURSIVE SumSeq(_)
SumSeq(seq) == IF seq = <<>> THEN 0 ELSE Head(seq) + SumSeq(Tail(seq))

RECURSIVE SumVectors(_)
SumVectors(seq) ==
    IF seq = <<>> THEN <<0, 0>>
    ELSE LET r == SumVectors(Tail(seq))
         IN  <<Head(seq)[1] + r[1], Head(seq)[2] + r[2]>>

AnomalyAlert(type, track_id, timestamp, severity) ==
    [timestamp |-> timestamp, type |-> type, track_id |-> track_id,
     severity |-> severity]

\* speeds: the distance of every step of the history.
Speeds(history) ==
    [i \in 1..(Len(history) - 1) |->
        Norm2(Minus(history[i + 1].position, history[i].position))]

\* Variant: the comparison with the mean of the earlier steps left out.
CheckSpeedSpike_AbsoluteOnly(track_id, history) ==
    IF Len(history) < MinSpeedHistory THEN <<>>
    ELSE IF unit * Last(Speeds(history)) > 2 * speed_threshold
    THEN <<AnomalyAlert("speed_spike", track_id, Last(history).timestamp, "high")>>
    ELSE <<>>
\* _check_speed_spike: recent_speed > self.speed_threshold and
\* recent_speed > avg_speed * 1.5, avg_speed the mean of the other steps.
CheckSpeedSpike(track_id, history) ==
    IF Len(history) < MinSpeedHistory THEN <<>>
    ELSE LET speeds == Speeds(history)
             recent_speed == speeds[Len(speeds)]
             others == SubSeq(speeds, 1, Len(speeds) - 1)
         IN  IF Len(speeds) < 2 THEN <<>>
             ELSE IF /\ unit * recent_speed > 2 * speed_threshold
                     /\ 2 * Len(others) * recent_speed > 3 * SumSeq(others)
             THEN <<AnomalyAlert("speed_spike", track_id,
                                 Last(history).timestamp, "high")>>
             ELSE <<>>

\* Variant: the square on the longer side of the enclosing box.
AreaCovered4_Square(history) ==
    LET xs == {history[i].position[1] : i \in DOMAIN history}
        ys == {history[i].position[2] : i \in DOMAIN history}
        side == Max2(MaxOf(xs) - Min(xs), MaxOf(ys) - Min(ys))
    IN  unit * unit * side * side
\* area_covered = (max_x - min_x) * (max_y - min_y): four times the area of
\* the box enclosing the positions of the history (the lengths are doubled).
AreaCovered4(history) ==
    LET xs == {history[i].position[1] : i \in DOMAIN history}
        ys == {history[i].position[2] : i \in DOMAIN history}
    IN  unit * unit * (MaxOf(xs) - Min(xs)) * (MaxOf(ys) - Min(ys))

\* _check_loitering: area_covered < 2000 and time_span >
\* self.loitering_threshold.
CheckLoitering(track_id, history, current_time) ==
    IF Len(history) < MinLoiteringHistory THEN <<>>
    ELSE LET area_covered4 == AreaCovered4(history)
             time_span == current_time - history[1].timestamp
         IN  IF area_covered4 < 4 * LoiteringArea /\ time_span > loitering_threshold
             THEN <<AnomalyAlert("loitering", track_id, current_time, "medium")>>
             ELSE <<>>

\* The non-zero steps between the positions of a list.
MovementVectors(positions) ==
    SelectSeq([i \in 1..(Len(positions) - 1) |->
                  Minus(positions[i + 1], positions[i])],
              LAMBDA v : v # <<0, 0>>)

\* Variant: the comparison turned round, cosine_sim > threshold.
OpposesFlow_Along(s) ==
    LET dot == s[1] * expected_flow[1] + s[2] * expected_flow[2]
        norm_sq == s[1] * s[1] + s[2] * s[2]
    IN  /\ s # <<0, 0>>
        /\ dot > 0
        /\ counterflow_threshold.d * counterflow_threshold.d * dot * dot
             > counterflow_threshold.n * counterflow_threshold.n * norm_sq
\* Variant: a summed vector of zero counts as against the flow.
OpposesFlow_ZeroIsAgainst(s) ==
    LET dot == s[1] * expected_flow[1] + s[2] * expected_flow[2]
        norm_sq == s[1] * s[1] + s[2] * s[2]
    IN  \/ s = <<0, 0>>
        \/ /\ dot < 0
           /\ counterflow_threshold.d * counterflow_threshold.d * dot * dot
                > counterflow_threshold.n * counterflow_threshold.n * norm_sq
\* cosine_sim < -self.counterflow_threshold, for the direction of the summed
\* vector s (the mean and s have the same direction).  A zero sum makes the
\* normalisation 0/0 = nan, and every comparison with nan is False.
OpposesFlow(s) ==
    LET dot == s[1] * expected_flow[1] + s[2] * expected_flow[2]
        norm_sq == s[1] * s[1] + s[2] * s[2]
    IN  /\ s # <<0, 0>>
        /\ dot < 0
        /\ counterflow_threshold.d * counterflow_threshold.d * dot * dot
             > counterflow_threshold.n * counterflow_threshold.n * norm_sq

\* _check_counterflow
CheckCounterflow(track_id, history) ==
    IF Len(history) < CounterflowWindow THEN <<>>
    ELSE LET recent_positions ==
                 [i \in 1..CounterflowWindow |->
                     history[Len(history) - CounterflowWindow + i].position]
             movement_vectors == MovementVectors(recent_positions)
         IN  IF movement_vectors = <<>> THEN <<>>
             ELSE IF OpposesFlow(SumVectors(movement_vectors))
             THEN <<AnomalyAlert("counterflow", track_id,
                                 Last(history).timestamp, "medium")>>
             ELSE <<>>

\* Variant: the test on the length of the history left out.
CheckAnomalies_NoGate(track_id, history, current_time) ==
    CheckSpeedSpike(track_id, history)
      \o CheckLoitering(track_id, history, current_time)
      \o CheckCounterflow(track_id, history)
\* Variant: the checks stop at the first one that fires.
CheckAnomalies_FirstOnly(track_id, history, current_time) ==
    IF Len(history) < MinHistory THEN <<>>
    ELSE IF CheckSpeedSpike(track_id, history) # <<>>
    THEN CheckSpeedSpike(track_id, history)
    ELSE IF CheckLoitering(track_id, history, current_time) # <<>>
    THEN CheckLoitering(track_id, history, current_time)
    ELSE CheckCounterflow(track_id, history)
\* _check_anomalies
CheckAnomalies(track_id, history, current_time) ==
    IF Len(history) < MinHistory THEN <<>>
    ELSE CheckSpeedSpike(track_id, history)
           \o CheckLoitering(track_id, history, current_time)
           \o CheckCounterflow(track_id, history)

\* Variant: the alerted set is not consulted.
AlreadyAlertedTrack_Never(track_id, alerted) == FALSE
\* if track_id in self.alerted_tracks: continue
AlreadyAlertedTrack(track_id, alerted) == track_id \in alerted

\* Variant: the alerted set is left as it is.
ClearAlerted_Keep(alerted) == alerted
\* reset_alerts: self.alerted_tracks.clear()
ClearAlerted(alerted) == {}

\* Variant: every class is analysed.
IsPerson_Any(class_name) == TRUE
\* class_name != 'person'
IsPerson(class_name) == class_name = "person"

\* One pass of the loop body of AnomalyDetector.update for obj; st holds the
\* detector's two collections, the alerts list built so far and, for the
\* properties, the samples appended by this call.
ProcessPerson(obj, current_time, st) ==
    LET track_id == obj.track_id
        sample == Sample(obj, current_time)
        history == AppendSample(IF track_id \in DOMAIN st.history
                                THEN st.history[track_id] ELSE <<>>, sample)
        anomaly == CheckAnomalies(track_id, history, current_time)
    IN  IF ~IsPerson(obj.class_name) THEN st
        ELSE IF AlreadyAlertedTrack(track_id, st.alerted) THEN st
        ELSE [st EXCEPT
                !.history = Put(@, track_id, history),
                !.appended = Append(@, [track_id |-> track_id, sample |-> sample]),
                !.alerts = @ \o anomaly,
                !.alerted = IF anomaly # <<>> THEN @ \cup {track_id} ELSE @]

RECURSIVE AnomalyLoop(_, _, _, _)
AnomalyLoop(objs, i, current_time, st) ==
    IF i > Len(objs) THEN st
    ELSE AnomalyLoop(objs, i + 1, current_time,
                     ProcessPerson(objs[i], current_time, st))

\* AnomalyDetector.update as a function of the detector's state.
AnomalyResult(objs, current_time, history, alerted) ==
    AnomalyLoop(objs, 1, current_time,
                [history |-> history, alerted |-> alerted, alerts |-> <<>>,
                 appended |-> <<>>])

(***************************************************************************)
(* Inputs of the tracker: the frames of a run.                             *)
(***************************************************************************)
BoxA == <<0, 0, 2, 2>>
BoxA2 == <<1, 0, 3, 2>>      \* BoxA moved one grid step: still matches BoxA
BoxB == <<4, 0, 6, 2>>       \* overlaps neither
Det(bbox, class_name, conf) == [bbox |-> bbox, class_name |-> class_name, conf |-> conf]
pA == Det(BoxA, "person", 9)
pA2 == Det(BoxA2, "person", 8)
pB == Det(BoxB, "person", 7)
bA == Det(BoxA, "backpack", 6)

\* Confidence is in tenths.  Each frame is one detection list.
FrameInputs ==
    { <<>>, <<pA>>, <<pA2>>, <<bA>>, <<pB>>, <<pA, pA2>>, <<bA, pA>> }

(***************************************************************************)
(* Initial state: the constructors.  A run of the tracker alone draws the  *)
(* tracker's arguments and leaves the detector at its defaults; a run of   *)
(* the detector alone does the opposite.                                   *)
(***************************************************************************)
Constructed(u, maxAge, nInit, threshold, speed, loitering) ==
    /\ unit = u
    /\ max_age = maxAge
    /\ n_init = nInit
    /\ tracks = EmptyMap
    /\ next_id = 1
    /\ frame_count = 0
    /\ now = 0
    /\ tracked_objects = <<>>
    /\ abandonment_threshold = threshold
    /\ object_person_associations = EmptyMap
    /\ abandoned_objects = {}
    /\ alerted_objects = {}
    /\ alerts = <<>>
    /\ speed_threshold = speed
    /\ loitering_threshold = loitering
    /\ movement_history = EmptyMap
    /\ alerted_tracks = {}
    /\ anomaly_alerts = <<>>
    /\ detections = <<>>
    /\ prev_tracks = EmptyMap
    /\ assigned = EmptyMap
    /\ allocated = <<>>
    /\ prev_next_id = 1
    /\ streak = EmptyMap
    /\ separated_since = EmptyMap
    /\ emitted = <<>>
    /\ observed = EmptyMap
    /\ prev_associations = EmptyMap
    /\ anomaly_calls = 0
    /\ arrivals = EmptyMap
    /\ anomaly_emitted = <<>>
    /\ at_reset = [calls |-> None, history |-> EmptyMap]
    /\ ab_i = 1
    /\ an_i = 1
    /\ frame_start = [objs |-> <<>>,
                      tracker |-> <<maxAge, nInit, EmptyMap, 1, 0>>,
                      associations |-> EmptyMap, abandoned |-> {}, alerted |-> {},
                      history |-> EmptyMap, alerted_tracks |-> {}]

InitTracker ==
    \E maxAge \in 0..MaxMaxAge, nInit \in 1..MaxNInit :
        Constructed(Unit, maxAge, nInit, DefaultAbandonmentThreshold,
                    DefaultSpeedThreshold, DefaultLoiteringThreshold)

InitDetector ==
    \E threshold \in 1..MaxThreshold :
        Constructed(Unit, DefaultMaxAge, DefaultNInit, threshold,
                    DefaultSpeedThreshold, DefaultLoiteringThreshold)

(***************************************************************************)
(* ObjectTracker.update(detections, frame), called at time now + dt.       *)
(***************************************************************************)
StreakAfter(r) ==
    [id \in DOMAIN r.updated |->
        IF id \in DOMAIN streak
        THEN [streak[id] EXCEPT
                !.unbroken = @ /\ (\E i \in DOMAIN r.assigned : r.assigned[i] = id)]
        ELSE [born |-> frame_count + 1, unbroken |-> TRUE]]

TrackerCall(dets, dt) ==
    /\ LET r == TrackerResult(tracks, next_id, dets, max_age, now + dt)
       IN  /\ tracks' = r.updated
           /\ next_id' = r.next_id
           /\ tracked_objects' = ConfirmedTracks(r.updated, n_init)
           /\ assigned' = r.assigned
           /\ allocated' = allocated \o r.created
           /\ streak' = StreakAfter(r)
    /\ frame_count' = frame_count + 1
    /\ now' = now + dt
    /\ detections' = dets
    /\ prev_tracks' = tracks
    /\ prev_next_id' = next_id
    /\ UNCHANGED <<unit, max_age, n_init>>

TrackerUpdate(dets, dt) ==
    /\ frame_count < MaxFrames
    /\ TrackerCall(dets, dt)

TrackerStep ==
    /\ \E dets \in FrameInputs : TrackerUpdate(dets, 1)
    /\ UNCHANGED <<detectorVars, detectorHistory, anomalyVars, anomalyHistory,
                   frameVars>>

SpecTracker == InitTracker /\ [][TrackerStep]_vars

(***************************************************************************)
(* The tracker fed malformed boxes: zero width, zero area, x inverted, and *)
(* both axes inverted, all centred on BoxA's centre.                       *)
(***************************************************************************)
BoxZeroWidth == <<1, 0, 1, 2>>
BoxPoint == <<1, 1, 1, 1>>
BoxInvertedX == <<2, 0, 0, 2>>
BoxInvertedXY == <<2, 2, 0, 0>>

DegenerateFrames ==
    { <<>>, <<pA>>, <<Det(BoxZeroWidth, "person", 5)>>,
      <<Det(BoxPoint, "person", 5)>>, <<Det(BoxInvertedX, "person", 5)>>,
      <<Det(BoxInvertedXY, "person", 5)>>,
      <<pA, Det(BoxInvertedXY, "person", 5)>> }

DegenerateStep ==
    /\ \E dets \in DegenerateFrames : TrackerUpdate(dets, 1)
    /\ UNCHANGED <<detectorVars, detectorHistory, anomalyVars, anomalyHistory,
                   frameVars>>

SpecDegenerate == InitTracker /\ [][DegenerateStep]_vars

(***************************************************************************)
(* The tracker following one object: every frame holds one person box, the *)
(* box of the frame before moved by a few pixels along x (all centres stay *)
(* on one line, so every centre distance is a whole number).  The size of  *)
(* the box is chosen with the first frame.                                 *)
(***************************************************************************)
BoxSizes == {2, 5, 40}
SizedBox(w) == <<0, 0, w, w>>
Moves == { <<0, 0>>, <<MaxMove, 0>>, <<1 - MaxMove, 0>> }
Shift(bbox, mv) == <<bbox[1] + mv[1], bbox[2] + mv[2], bbox[3] + mv[1], bbox[4] + mv[2]>>

NextBoxes ==
    IF detections = <<>> THEN {SizedBox(w) : w \in BoxSizes}
    ELSE {Shift(detections[1].bbox, mv) : mv \in Moves}

InitContinuity ==
    \E maxAge \in 0..MaxMaxAge, nInit \in 1..MaxNInit :
        Constructed(Pixel, maxAge, nInit, DefaultAbandonmentThreshold,
                    DefaultSpeedThreshold, DefaultLoiteringThreshold)

ContinuityStep ==
    /\ \E bbox \in NextBoxes : TrackerUpdate(<<Det(bbox, "person", 9)>>, 1)
    /\ UNCHANGED <<detectorVars, detectorHistory, anomalyVars, anomalyHistory,
                   frameVars>>

SpecContinuity == InitContinuity /\ [][ContinuityStep]_vars

(***************************************************************************)
(* The tracker on frames that make tracks compete for detections: person   *)
(* boxes side by side on one line (BoxA0 and BoxA2 lie one grid step to    *)
(* the left and to the right of BoxA, BoxTouch shares an edge with BoxA,   *)
(* BoxPoint is BoxA's centre), and a train that spans most of a frame 3840 *)
(* pixels wide and moves 900 pixels between two frames.                    *)
(***************************************************************************)
BoxA0 == <<-1, 0, 1, 2>>
BoxTouch == <<2, 0, 4, 2>>
BoxWide == <<0, 0, 24, 2>>
BoxWide9 == <<9, 0, 33, 2>>
pA0 == Det(BoxA0, "person", 6)
pTouch == Det(BoxTouch, "person", 5)
pPoint == Det(BoxPoint, "person", 5)
tWide == Det(BoxWide, "train", 9)
tWide9 == Det(BoxWide9, "train", 8)

MatchingFrames ==
    { <<>>, <<pA>>, <<pA2>>, <<pA, pA2>>, <<pA2, pA>>, <<pA2, pA0>>, <<pA0, pA2>>,
      <<pTouch>>, <<pPoint>>, <<tWide>>, <<tWide9>> }

MatchingStep ==
    /\ frame_count < MaxMatchingFrames
    /\ \E dets \in MatchingFrames : TrackerUpdate(dets, 1)
    /\ UNCHANGED <<detectorVars, detectorHistory, anomalyVars, anomalyHistory,
                   frameVars>>

SpecMatching == InitTracker /\ [][MatchingStep]_vars

(***************************************************************************)
(* Inputs of the detector called on its own: tracked-object lists.         *)
(***************************************************************************)
Obj(track_id, bbox, class_name, confidence) ==
    [track_id |-> track_id, bbox |-> bbox, class_name |-> class_name,
     confidence |-> confidence]
bag1 == Obj(1, <<0, 0, 1, 1>>, "bag", 9)
personNear == Obj(2, <<0, 0, 2, 1>>, "person", 8)   \* 50 px from bag1
personFar == Obj(2, <<4, 0, 6, 1>>, "person", 8)    \* the same person, 450 px away
suitcase5 == Obj(5, <<8, 0, 9, 1>>, "suitcase", 7)  \* far from everybody
personOnBag == Obj(3, <<0, 0, 1, 1>>, "person", 8)  \* another person, 0 px from bag1

ObjectLists ==
    { <<>>, <<bag1>>, <<bag1, personNear>>, <<bag1, personFar>>, <<personNear>>,
      <<bag1, suitcase5>>, <<bag1, personNear, personOnBag>> }

(***************************************************************************)
(* AbandonmentDetector.update(tracked_objects, track_history), called at   *)
(* time now + dt.                                                          *)
(***************************************************************************)
\* A person-class object of the list lies within proximity of object o.
PersonWithin(o, objs) ==
    \E i \in DOMAIN objs :
        /\ objs[i].class_name = "person"
        /\ LET dx == (objs[i].bbox[1] + objs[i].bbox[3]) - (o.bbox[1] + o.bbox[3])
               dy == (objs[i].bbox[2] + objs[i].bbox[4]) - (o.bbox[2] + o.bbox[4])
           IN  unit * unit * (dx * dx + dy * dy)
                 < 4 * proximity_threshold * proximity_threshold

\* The ids of the bag-class objects of the list.
BagIds(objs) ==
    {objs[i].track_id : i \in {j \in DOMAIN objs : objs[j].class_name \in BagClasses}}

\* observed after an update call at time t on the list objs.
ObservedAfter(objs, t) ==
    [id \in DOMAIN observed \cup BagIds(objs) |->
        IF id \notin BagIds(objs) THEN observed[id]
        ELSE IF id \in DOMAIN observed THEN Append(observed[id], t)
        ELSE <<t>>]

\* The bag-class objects of the list with no person within proximity.
SeparatedIds(objs) ==
    {objs[i].track_id : i \in {j \in DOMAIN objs :
        objs[j].class_name \in BagClasses /\ ~PersonWithin(objs[j], objs)}}

DetectorUpdate(objs, t) ==
    LET r == AbandonmentResult(objs, t, abandonment_threshold,
                               object_person_associations, abandoned_objects,
                               alerted_objects)
    IN  /\ object_person_associations' = r.associations
        /\ abandoned_objects' = r.abandoned
        /\ alerted_objects' = r.alerted
        /\ alerts' = r.alerts
        /\ emitted' = emitted \o r.alerts
        /\ separated_since' =
             [id \in SeparatedIds(objs) |->
                IF id \in DOMAIN separated_since THEN separated_since[id] ELSE t]
        /\ observed' = ObservedAfter(objs, t)
        /\ prev_associations' = object_person_associations
        /\ UNCHANGED abandonment_threshold

AbandonmentUpdate(objs, dt) ==
    /\ now + dt <= MaxTime
    /\ now' = now + dt
    /\ tracked_objects' = objs
    /\ DetectorUpdate(objs, now + dt)

AbandonmentStep ==
    /\ \E objs \in ObjectLists, dt \in 1..MaxDt : AbandonmentUpdate(objs, dt)
    /\ UNCHANGED <<unit, trackerVars, trackerHistory, anomalyVars, anomalyHistory,
                   frameVars>>

SpecAbandonment == InitDetector /\ [][AbandonmentStep]_vars

(***************************************************************************)
(* AnomalyDetector.update(tracked_objects, track_history), called at time  *)
(* t.                                                                      *)
(***************************************************************************)
RECURSIVE ArrivalsAfter(_, _)
ArrivalsAfter(arr, appended) ==
    IF appended = <<>> THEN arr
    ELSE LET id == Head(appended).track_id
         IN  ArrivalsAfter(
                 Put(arr, id, (IF id \in DOMAIN arr THEN arr[id] ELSE <<>>)
                                \o <<Head(appended).sample>>),
                 Tail(appended))

AnomalyDetectorUpdate(objs, t) ==
    LET r == AnomalyResult(objs, t, movement_history, alerted_tracks)
    IN  /\ movement_history' = r.history
        /\ alerted_tracks' = r.alerted
        /\ anomaly_alerts' = r.alerts
        /\ anomaly_calls' = anomaly_calls + 1
        /\ anomaly_emitted' =
             anomaly_emitted \o [i \in 1..Len(r.alerts) |->
                                    [call |-> anomaly_calls + 1, alert |-> r.alerts[i]]]
        /\ arrivals' = ArrivalsAfter(arrivals, r.appended)
        /\ UNCHANGED <<speed_threshold, loitering_threshold, at_reset>>

(***************************************************************************)
(* The anomaly detector called on its own, once a second, with one person  *)
(* who walks along x: the constructor arguments are those of the three     *)
(* places of the repository that build an AnomalyDetector.                 *)
(***************************************************************************)
AnomalyConfigs ==
    { <<20, 5>>, <<25, 8>>, <<DefaultSpeedThreshold, DefaultLoiteringThreshold>> }

InitAnomaly ==
    \E cfg \in AnomalyConfigs :
        Constructed(Pixel, DefaultMaxAge, DefaultNInit, DefaultAbandonmentThreshold,
                    cfg[1], cfg[2])

PersonBoxAt(x) == <<x - 20, 210, x + 20, 290>>     \* centre (x, 250)
PersonSteps == {-60, 60, 100}
Walker(bbox) == Obj(2, bbox, "person", 8)

WalkerLists ==
    IF tracked_objects = <<>> THEN { <<Walker(PersonBoxAt(140))>> }
    ELSE { <<Walker(Shift(tracked_objects[1].bbox, <<dx, 0>>))>> : dx \in PersonSteps }

AnomalyUpdate(objs, dt) ==
    /\ now' = now + dt
    /\ tracked_objects' = objs
    /\ AnomalyDetectorUpdate(objs, now + dt)

AnomalyStep ==
    /\ anomaly_calls < MaxCalls
    /\ \E objs \in WalkerLists : AnomalyUpdate(objs, 1)
    /\ UNCHANGED <<unit, trackerVars, trackerHistory, detectorVars, detectorHistory,
                   frameVars>>

SpecAnomaly == InitAnomaly /\ [][AnomalyStep]_vars

(***************************************************************************)
(* A long run of the anomaly detector at video rate: many calls within a   *)
(* few seconds (two calls may read the same second), one person walking    *)
(* one grid step to the right per call.                                    *)
(***************************************************************************)
InitHistory ==
    Constructed(Pixel, DefaultMaxAge, DefaultNInit, DefaultAbandonmentThreshold,
                DefaultSpeedThreshold, DefaultLoiteringThreshold)

HistoryStep ==
    /\ anomaly_calls < MaxSamples
    /\ \E dt \in {0, 1} :
         /\ now + dt <= MaxSpan
         /\ AnomalyUpdate(<<Walker(PersonBoxAt(140 + anomaly_calls))>>, dt)
    /\ UNCHANGED <<unit, trackerVars, trackerHistory, detectorVars, detectorHistory,
                   frameVars>>

SpecHistory == InitHistory /\ [][HistoryStep]_vars

(***************************************************************************)
(* The anomaly detector called once a second with one person who stands,   *)
(* strolls to the right or dashes back to the left.                        *)
(***************************************************************************)
BurstSteps == {0, 60, -180}

BurstLists ==
    IF tracked_objects = <<>> THEN { <<Walker(PersonBoxAt(140))>> }
    ELSE { <<Walker(Shift(tracked_objects[1].bbox, <<dx, 0>>))>> : dx \in BurstSteps }

BurstStep ==
    /\ anomaly_calls < MaxCalls
    /\ \E objs \in BurstLists : AnomalyUpdate(objs, 1)
    /\ UNCHANGED <<unit, trackerVars, trackerHistory, detectorVars, detectorHistory,
                   frameVars>>

SpecBurst == InitAnomaly /\ [][BurstStep]_vars

(***************************************************************************)
(* AnomalyDetector.reset_alerts(), and a run in which it may be called     *)
(* between any two update calls: one person who stands or dashes to the    *)
(* left, one call a second.                                                *)
(***************************************************************************)
ResetAlerts ==
    /\ alerted_tracks' = ClearAlerted(alerted_tracks)
    /\ at_reset' = [calls |-> anomaly_calls, history |-> movement_history]
    /\ UNCHANGED <<now, tracked_objects, speed_threshold, loitering_threshold,
                   movement_history, anomaly_alerts, anomaly_calls, arrivals,
                   anomaly_emitted>>

ResetSteps == {0, -180}

ResetLists ==
    IF tracked_objects = <<>> THEN { <<Walker(PersonBoxAt(140))>> }
    ELSE { <<Walker(Shift(tracked_objects[1].bbox, <<dx, 0>>))>> : dx \in ResetSteps }

ResetStep ==
    /\ \/ /\ anomaly_calls < MaxResetCalls
          /\ \E objs \in ResetLists : AnomalyUpdate(objs, 1)
       \/ ResetAlerts
    /\ UNCHANGED <<unit, trackerVars, trackerHistory, detectorVars, detectorHistory,
                   frameVars>>

SpecReset == InitAnomaly /\ [][ResetStep]_vars

(***************************************************************************)
(* A long run of the anomaly detector with one person who never moves,     *)
(* sampled evenly: the first call fixes the period, every later call comes *)
(* one period after the one before.  loitering_threshold is drawn around   *)
(* 29 periods, the age the oldest of 30 retained samples can reach.        *)
(***************************************************************************)
LoiteringThresholds == {DefaultLoiteringThreshold, 28, 29, 58}

InitStill ==
    \E loitering \in LoiteringThresholds :
        Constructed(Pixel, DefaultMaxAge, DefaultNInit, DefaultAbandonmentThreshold,
                    DefaultSpeedThreshold, loitering)

\* The seconds from construction to the first call, which every later call
\* keeps as the distance to the call before it.
Period == arrivals[2][1].timestamp

StillPeriods == IF anomaly_calls = 0 THEN 1..MaxPeriod ELSE {Period}

StillStep ==
    /\ anomaly_calls < MaxSamples
    /\ \E d \in StillPeriods : AnomalyUpdate(<<Walker(PersonBoxAt(140))>>, d)
    /\ UNCHANGED <<unit, trackerVars, trackerHistory, detectorVars, detectorHistory,
                   frameVars>>

SpecStill == InitStill /\ [][StillStep]_vars

(***************************************************************************)
(* One frame handed to both detectors (video_runner.py, _process_frame):   *)
(* the two update calls run side by side, each advancing one object at a   *)
(* time in any interleaving, which includes either call running first; the *)
(* next frame begins when both have returned.  Frames are one second       *)
(* apart and both calls of a frame read the same second from the clock.    *)
(* Every list holds a chair that stands still and a chair that slides one  *)
(* grid step to the left per frame.                                        *)
(***************************************************************************)
chairStill == Obj(7, <<20, 0, 21, 1>>, "chair", 6)
ChairSliding(k) == Obj(8, <<30 - k, 3, 31 - k, 4>>, "chair", 6)

PipelineLists(k) ==
    { <<bag1, personNear, chairStill, ChairSliding(k)>>,
      <<bag1, personFar, chairStill, ChairSliding(k)>>,
      <<personNear, chairStill, ChairSliding(k)>> }

InitPipeline ==
    \E threshold \in 1..MaxThreshold :
        Constructed(Unit, DefaultMaxAge, DefaultNInit, threshold,
                    DefaultSpeedThreshold, DefaultLoiteringThreshold)

FrameStart(objs) ==
    /\ ab_i > Len(tracked_objects)
    /\ an_i > Len(tracked_objects)
    /\ anomaly_calls < MaxPipelineFrames
    /\ now' = now + 1
    /\ tracked_objects' = objs
    /\ ab_i' = 1
    /\ an_i' = 1
    /\ alerts' = <<>>
    /\ anomaly_alerts' = <<>>
    /\ anomaly_calls' = anomaly_calls + 1
    /\ separated_since' =
         [id \in SeparatedIds(objs) |->
            IF id \in DOMAIN separated_since THEN separated_since[id] ELSE now + 1]
    /\ observed' = ObservedAfter(objs, now + 1)
    /\ prev_associations' = object_person_associations
    /\ frame_start' = [objs |-> objs, tracker |-> trackerVars,
                       associations |-> object_person_associations,
                       abandoned |-> abandoned_objects, alerted |-> alerted_objects,
                       history |-> movement_history, alerted_tracks |-> alerted_tracks]
    /\ UNCHANGED <<unit, trackerVars, trackerHistory, abandonment_threshold,
                   object_person_associations, abandoned_objects, alerted_objects,
                   emitted, speed_threshold, loitering_threshold, movement_history,
                   alerted_tracks, arrivals, anomaly_emitted, at_reset>>

\* The loop of AbandonmentDetector.update advances by one object.
AbandonmentObjectStep ==
    /\ ab_i <= Len(tracked_objects)
    /\ LET r == ProcessObject(tracked_objects[ab_i], tracked_objects, now,
                              abandonment_threshold,
                              [associations |-> object_person_associations,
                               abandoned |-> abandoned_objects,
                               alerted |-> alerted_objects, alerts |-> alerts])
       IN  /\ object_person_associations' = r.associations
           /\ abandoned_objects' = r.abandoned
           /\ alerted_objects' = r.alerted
           /\ alerts' = r.alerts
           /\ emitted' = emitted \o SubSeq(r.alerts, Len(alerts) + 1, Len(r.alerts))
    /\ ab_i' = ab_i + 1
    /\ UNCHANGED <<unit, trackerVars, trackerHistory, now, tracked_objects,
                   abandonment_threshold, separated_since, observed,
                   prev_associations, anomalyVars, anomalyHistory, an_i,
                   frame_start>>

\* The loop of AnomalyDetector.update advances by one object.
AnomalyObjectStep ==
    /\ an_i <= Len(tracked_objects)
    /\ LET r == ProcessPerson(tracked_objects[an_i], now,
                              [history |-> movement_history,
                               alerted |-> alerted_tracks,
                               alerts |-> anomaly_alerts, appended |-> <<>>])
           new == SubSeq(r.alerts, Len(anomaly_alerts) + 1, Len(r.alerts))
       IN  /\ movement_history' = r.history
           /\ alerted_tracks' = r.alerted
           /\ anomaly_alerts' = r.alerts
           /\ anomaly_emitted' =
                anomaly_emitted \o [i \in 1..Len(new) |->
                                       [call |-> anomaly_calls, alert |-> new[i]]]
           /\ arrivals' = ArrivalsAfter(arrivals, r.appended)
    /\ an_i' = an_i + 1
    /\ UNCHANGED <<unit, trackerVars, trackerHistory, now, tracked_objects,
                   detectorVars, detectorHistory, speed_threshold,
                   loitering_threshold, anomaly_calls, at_reset, ab_i,
                   frame_start>>

PipelineStep ==
    \/ \E objs \in PipelineLists(anomaly_calls + 1) : FrameStart(objs)
    \/ AbandonmentObjectStep
    \/ AnomalyObjectStep

SpecPipeline == InitPipeline /\ [][PipelineStep]_vars

(***************************************************************************)
(* The whole of _process_frame: the tracker is updated with the frame's    *)
(* detections and both detectors are called on the list it returns, all    *)
(* at the same second.  Every frame shows a backpack; the person stands on *)
(* it, has stepped one grid step to the left, or is not detected.  Frames  *)
(* come one second or MaxDt seconds apart.                                 *)
(***************************************************************************)
\* <<max_age, n_init, abandonment_threshold>>
VideoConfigs == { <<0, 1, 1>>, <<1, 1, 2>>, <<1, 3, 1>> }

InitVideo ==
    \E cfg \in VideoConfigs :
        Constructed(Unit, cfg[1], cfg[2], cfg[3],
                    DefaultSpeedThreshold, DefaultLoiteringThreshold)

VideoFrames == { <<bA>>, <<bA, pA>>, <<bA, pA0>> }

ProcessFrame(dets, dt) ==
    /\ TrackerCall(dets, dt)
    /\ DetectorUpdate(tracked_objects', now + dt)
    /\ AnomalyDetectorUpdate(tracked_objects', now + dt)

VideoStep ==
    /\ frame_count < MaxVideoFrames
    /\ \E dets \in VideoFrames, dt \in {1, MaxDt} : ProcessFrame(dets, dt)
    /\ UNCHANGED frameVars

SpecVideo == InitVideo /\ [][VideoStep]_vars

(***************************************************************************)
(* Properties of the tracker.                                              *)
(***************************************************************************)
OutputIds == {tracked_objects[i].track_id : i \in DOMAIN tracked_objects}

\* C5: after every ObjectTracker.update the returned list holds exactly the
\* tracks of the state with hits >= n_init, each once and with its current
\* fields, whatever their lost value; no track with hits < n_init is in it.
C5_OutputIsConfirmedTracks ==
    /\ OutputIds = {id \in DOMAIN tracks : tracks[id].hits >= n_init}
    /\ Len(tracked_objects) = Cardinality(OutputIds)
    /\ \A i \in DOMAIN tracked_objects :
         LET o == tracked_objects[i]
         IN  /\ o.bbox = tracks[o.track_id].bbox
             /\ o.class_name = tracks[o.track_id].class_name
             /\ o.confidence = tracks[o.track_id].confidence

\* A confirmed track that is ageing out is in the output, next to a track
\* that is not confirmed yet and is not.
C5_Witness ==
    /\ \E id \in OutputIds : tracks[id].lost > 0
    /\ \E id \in DOMAIN tracks : tracks[id].hits < n_init /\ id \notin OutputIds

\* C6: a track created at frame k and matched on every frame since is absent
\* from the output on frames k .. k+n_init-2 and present from frame
\* k+n_init-1 on (on its creation frame when n_init = 1).
C6_ConfirmationDelay ==
    \A id \in DOMAIN tracks :
        streak[id].unbroken =>
            (id \in OutputIds <=> frame_count >= streak[id].born + n_init - 1)

\* With n_init = 3: one track on its first confirmed frame, and a younger
\* one, matched ever since its creation, still hidden.
C6_Witness ==
    /\ n_init = 3
    /\ \E id \in DOMAIN tracks :
         /\ streak[id].unbroken
         /\ frame_count = streak[id].born + n_init - 1
         /\ id \in OutputIds
    /\ \E id \in DOMAIN tracks :
         /\ streak[id].unbroken
         /\ streak[id].born < frame_count
         /\ id \notin OutputIds

\* C7 (as claimed): at the end of every update call no track with
\* lost > max_age remains in the state or in the returned list.
C7_NoExpiredTrackRemains ==
    /\ \A id \in DOMAIN tracks : tracks[id].lost <= max_age
    /\ \A id \in OutputIds : tracks[id].lost <= max_age

\* C8: a track whose lost counter exceeds max_age is gone from the state and
\* the output of the following update call and takes no detection of that
\* frame; a track that takes a detection had lost <= max_age and has lost = 0.
C8_Expiry ==
    /\ \A id \in DOMAIN prev_tracks :
         prev_tracks[id].lost > max_age =>
            /\ id \notin DOMAIN tracks
            /\ id \notin OutputIds
            /\ \A i \in DOMAIN assigned : assigned[i] # id
    /\ \A i \in DOMAIN assigned :
         assigned[i] \in DOMAIN prev_tracks =>
            /\ prev_tracks[assigned[i]].lost <= max_age
            /\ tracks[assigned[i]].lost = 0

\* A confirmed track was dropped by a frame holding a same-class detection
\* that scores above the threshold against it, and that detection started a
\* new track; in the same frame a lost track was matched again.
C8_Witness ==
    /\ \E id \in DOMAIN prev_tracks, i \in DOMAIN detections :
         /\ prev_tracks[id].lost > max_age
         /\ prev_tracks[id].hits >= n_init
         /\ prev_tracks[id].class_name = detections[i].class_name
         /\ ScoreGt(Score(prev_tracks[id].bbox, detections[i].bbox), MinScore)
         /\ assigned[i] \notin DOMAIN prev_tracks
         /\ assigned[i] \in DOMAIN tracks
    /\ \E i \in DOMAIN assigned :
         /\ assigned[i] \in DOMAIN prev_tracks
         /\ prev_tracks[assigned[i]].lost > 0

\* C9: track ids are handed out strictly increasing and positive, every id
\* in the state was handed out once, next_id is above all of them, and the
\* ids of an output list are pairwise distinct.
C9_IdsNeverReused ==
    /\ \A i \in DOMAIN allocated :
         /\ allocated[i] > 0
         /\ allocated[i] < next_id
         /\ i > 1 => allocated[i] > allocated[i - 1]
    /\ DOMAIN tracks \subseteq Range(allocated)
    /\ \A i, j \in DOMAIN tracked_objects :
         i # j => tracked_objects[i].track_id # tracked_objects[j].track_id

\* A track has been removed and the last frame created a track, of the same
\* class as a detection that would have matched the removed one.
C9_Witness ==
    /\ \E id \in Range(allocated) : id \notin DOMAIN tracks
    /\ \E id \in DOMAIN prev_tracks, i \in DOMAIN detections :
         /\ id \notin DOMAIN tracks
         /\ prev_tracks[id].class_name = detections[i].class_name
         /\ prev_tracks[id].bbox = detections[i].bbox
         /\ assigned[i] > id
         /\ assigned[i] \in OutputIds

\* C10: a detection only ever updates a track of its own class label, and a
\* track keeps its class label from one frame to the next.
C10_ClassIsolation ==
    /\ \A i \in DOMAIN assigned :
         assigned[i] \in DOMAIN prev_tracks =>
            prev_tracks[assigned[i]].class_name = detections[i].class_name
    /\ \A id \in DOMAIN tracks \cap DOMAIN prev_tracks :
         tracks[id].class_name = prev_tracks[id].class_name

\* A detection lay exactly on a live track of another class: it started a
\* track of its own and the old track went unmatched.
C10_Witness ==
    \E id \in DOMAIN prev_tracks, i \in DOMAIN detections :
        /\ prev_tracks[id].lost <= max_age
        /\ prev_tracks[id].bbox = detections[i].bbox
        /\ prev_tracks[id].class_name # detections[i].class_name
        /\ assigned[i] \notin DOMAIN prev_tracks
        /\ id \in DOMAIN tracks
        /\ tracks[id].lost = prev_tracks[id].lost + 1

\* C12: in each ObjectTracker.update call every detection of the frame is
\* consumed exactly once: it updates exactly one surviving track or creates
\* exactly one new track with hits = 1 and lost = 0, no track takes two
\* detections, and afterwards the tracks with lost = 0 are as many as the
\* detections of the frame.
C12_EveryDetectionConsumedOnce ==
    /\ DOMAIN assigned = 1..Len(detections)
    /\ \A i, j \in DOMAIN assigned : assigned[i] = assigned[j] => i = j
    /\ \A i \in DOMAIN assigned :
         LET id == assigned[i]
         IN  /\ id \in DOMAIN tracks
             /\ tracks[id].bbox = detections[i].bbox
             /\ tracks[id].lost = 0
             /\ tracks[id].hits =
                  IF id \in DOMAIN prev_tracks THEN prev_tracks[id].hits + 1 ELSE 1
    /\ Cardinality({id \in DOMAIN tracks : tracks[id].lost = 0}) = Len(detections)

\* A frame of two detections: one updates a track that existed, the other
\* creates a track, and a third track goes unmatched.
C12_Witness ==
    /\ Len(detections) = 2
    /\ \E i, j \in DOMAIN assigned :
         /\ assigned[i] \in DOMAIN prev_tracks
         /\ assigned[j] \notin DOMAIN prev_tracks
    /\ \E id \in DOMAIN tracks : tracks[id].lost > 0

\* The object of a run of single detections keeps the id 1: no second track
\* is created and, from confirmation on, the output is that one id.
KeepsOneTrackId ==
    frame_count >= 1 =>
        /\ allocated = <<1>>
        /\ DOMAIN tracks = {1}
        /\ OutputIds = IF frame_count >= n_init THEN {1} ELSE {}

\* Every move of the run leaves the box scoring above the minimum against
\* the box it had one frame before (the score depends on the size of the box
\* and on the move, not on where the box is).
EveryMoveScoresAboveMinimum ==
    \A mv \in Moves :
        ScoreGt(Score(detections[1].bbox, Shift(detections[1].bbox, mv)), MinScore)

\* C11 as stated: for every box size, an object detected once per frame and
\* moving by at most a few pixels per frame keeps one track id.
C11_ContinuityForEveryBoxSize == KeepsOneTrackId

\* C11, amended: an object detected once per frame keeps one track id when
\* each of its boxes scores above the 0.3 minimum against the box of the
\* frame before, that is when they overlap with 0.7 * IoU > 0.3 * d / 800.
C11_ContinuityWhileBoxesOverlap ==
    (frame_count >= 1 /\ EveryMoveScoresAboveMinimum) => KeepsOneTrackId

\* A box barely larger than the move has drifted off the place where its
\* track was created and is still followed under the one confirmed id.
C11_Witness ==
    /\ frame_count >= n_init + 1
    /\ EveryMoveScoresAboveMinimum
    /\ IoU(detections[1].bbox, SizedBox(5)).n = 0
    /\ detections[1].bbox[3] - detections[1].bbox[1] = 5
    /\ OutputIds = {1}

\* The detections of the last frame taken by a live track with a lower id.
TakenByLower(id) ==
    {i \in DOMAIN assigned :
        assigned[i] \in DOMAIN prev_tracks /\ assigned[i] < id}

\* The detections of the last frame the track took.
TakenBy(id) == {i \in DOMAIN assigned : assigned[i] = id}

\* The same-class detections left to the track that score above 0.3
\* against the box it had.
Candidates(id) ==
    {i \in DOMAIN detections :
        /\ detections[i].class_name = prev_tracks[id].class_name
        /\ i \notin TakenByLower(id)
        /\ ScoreGt(Score(prev_tracks[id].bbox, detections[i].bbox), MinScore)}

\* The candidate with the highest score, the first of them on equal scores.
BestCandidates(id) ==
    {i \in Candidates(id) : \A j \in Candidates(id) :
        LET si == Score(prev_tracks[id].bbox, detections[i].bbox)
            sj == Score(prev_tracks[id].bbox, detections[j].bbox)
        IN  /\ ~ScoreGt(sj, si)
            /\ ~ScoreGt(si, sj) => i <= j}

\* C25: the tracks are processed in ascending id order: every live track
\* takes, among the same-class detections not taken by a lower-id track in
\* this frame, the one with the highest score if that score exceeds 0.3 (the
\* first in detection order on equal scores), and nothing otherwise; it never
\* takes a detection a lower-id track took.
C25_GreedyInIdOrder ==
    \A id \in DOMAIN prev_tracks :
        IF Expired(prev_tracks[id], max_age) THEN TakenBy(id) = {}
        ELSE /\ TakenBy(id) = BestCandidates(id)
             /\ Cardinality(TakenBy(id)) <= 1
             /\ TakenBy(id) \cap TakenByLower(id) = {}

\* Two detections score the same against track a and it took the first; that
\* detection scores higher against the higher-id track b, which was left
\* with nothing and went unmatched.
C25_Witness ==
    \E a, b \in DOMAIN prev_tracks, i, j \in DOMAIN detections :
        /\ a < b /\ i < j
        /\ ~Expired(prev_tracks[a], max_age) /\ ~Expired(prev_tracks[b], max_age)
        /\ {i, j} \subseteq Candidates(a)
        /\ ~ScoreGt(Score(prev_tracks[a].bbox, detections[i].bbox),
                    Score(prev_tracks[a].bbox, detections[j].bbox))
        /\ ~ScoreGt(Score(prev_tracks[a].bbox, detections[j].bbox),
                    Score(prev_tracks[a].bbox, detections[i].bbox))
        /\ assigned[i] = a
        /\ prev_tracks[b].class_name = detections[i].class_name
        /\ ScoreGt(Score(prev_tracks[b].bbox, detections[i].bbox),
                   Score(prev_tracks[a].bbox, detections[i].bbox))
        /\ TakenBy(b) = {}
        /\ tracks[b].lost = prev_tracks[b].lost + 1

\* The detection's box overlaps the box of no live track of its class.
OverlapsNoTrack(i) ==
    \A id \in DOMAIN prev_tracks :
        ( /\ ~Expired(prev_tracks[id], max_age)
          /\ prev_tracks[id].class_name = detections[i].class_name )
            => IoU(prev_tracks[id].bbox, detections[i].bbox).n = 0

\* A detection whose box has IoU = 0 with a track's box is never matched to
\* that track, and a detection that overlaps no track starts a track.
NoOverlapNoMatch ==
    /\ \A id \in DOMAIN prev_tracks, i \in DOMAIN detections :
         IoU(prev_tracks[id].bbox, detections[i].bbox).n = 0 => assigned[i] # id
    /\ \A i \in DOMAIN detections :
         OverlapsNoTrack(i) =>
            /\ assigned[i] \notin DOMAIN prev_tracks
            /\ tracks[assigned[i]].hits = 1

\* C26 (as claimed): a detection whose box does not overlap a track's box is
\* never matched to it, however close the centres, and the track it starts
\* is unconfirmed.
C26_NoOverlapStartsUnconfirmedTrack ==
    /\ NoOverlapNoMatch
    /\ \A i \in DOMAIN detections :
         OverlapsNoTrack(i) => assigned[i] \notin OutputIds

\* C26 (amended): a detection whose box does not overlap a track's box is
\* never matched to it, however close the centres; the track it starts has
\* hits = 1 and is unconfirmed exactly when n_init > 1.
C26_NoOverlapStartsNewTrack ==
    /\ NoOverlapNoMatch
    /\ \A i \in DOMAIN detections :
         OverlapsNoTrack(i) => (assigned[i] \notin OutputIds <=> n_init > 1)

\* A detection with the very centre of a live track of its class but no
\* overlap (the score is exactly 0.3, not above it) started a track that is
\* not in the output, and the old track went unmatched.
C26_Witness ==
    /\ n_init > 1
    /\ \E id \in DOMAIN prev_tracks, i \in DOMAIN detections :
         /\ ~Expired(prev_tracks[id], max_age)
         /\ prev_tracks[id].class_name = detections[i].class_name
         /\ OverlapsNoTrack(i)
         /\ Center2(prev_tracks[id].bbox) = Center2(detections[i].bbox)
         /\ ~ScoreGt(Score(prev_tracks[id].bbox, detections[i].bbox), MinScore)
         /\ ~ScoreGt(MinScore, Score(prev_tracks[id].bbox, detections[i].bbox))
         /\ assigned[i] \notin DOMAIN prev_tracks
         /\ assigned[i] \notin OutputIds
         /\ tracks[id].lost = prev_tracks[id].lost + 1

\* 0.7 * IoU + 0.3 * (1 - min(center_distance / 800, 1)), as the fraction
\* n / (16000 * d).
ClampedScore(bbox1, bbox2) ==
    LET i == IoU(bbox1, bbox2)
        D2 == Min2(unit * Distance2(bbox1, bbox2), 1600)
    IN  [n |-> 11200 * i.n + 3 * i.d * (1600 - D2), d |-> i.d]

\* The same-class detections of the last frame left to the track.
LeftFor(id) ==
    {i \in DOMAIN detections :
        /\ detections[i].class_name = prev_tracks[id].class_name
        /\ i \notin TakenByLower(id)}

\* C27 (as claimed): a live track takes a detection exactly when one of the
\* same-class detections left to it has 0.7 * IoU + 0.3 * (1 - min(d / 800,
\* 1)) above 0.3, and the score the tracker computes is never below
\* 0.7 * IoU: the distance term is not negative beyond 800 px.
C27_AcceptByClampedScore ==
    \A id \in DOMAIN prev_tracks :
        ~Expired(prev_tracks[id], max_age) =>
            /\ TakenBy(id) # {} <=>
                  \E i \in LeftFor(id) :
                      ScoreGt(ClampedScore(prev_tracks[id].bbox, detections[i].bbox),
                              MinScore)
            /\ \A i \in LeftFor(id) :
                  Score(prev_tracks[id].bbox, detections[i].bbox).n
                      >= 11200 * IoU(prev_tracks[id].bbox, detections[i].bbox).n

\* C28: a track matched in an update call has the box and the confidence of
\* the detection it took, lost = 0 and one hit more than before; its class
\* label and creation time are those it had.
C28_MatchedTrackFields ==
    \A i \in DOMAIN assigned :
        LET id == assigned[i]
        IN  id \in DOMAIN prev_tracks =>
                /\ tracks[id].bbox = detections[i].bbox
                /\ tracks[id].confidence = detections[i].conf
                /\ tracks[id].lost = 0
                /\ tracks[id].hits = prev_tracks[id].hits + 1
                /\ tracks[id].class_name = prev_tracks[id].class_name
                /\ tracks[id].start_time = prev_tracks[id].start_time

\* A track that had gone unmatched took a detection with another box and
\* another confidence, at a time later than its creation.
C28_Witness ==
    \E i \in DOMAIN assigned :
        LET id == assigned[i]
        IN  /\ id \in DOMAIN prev_tracks
            /\ prev_tracks[id].lost > 0
            /\ prev_tracks[id].bbox # detections[i].bbox
            /\ prev_tracks[id].confidence # detections[i].conf
            /\ prev_tracks[id].start_time < now

\* C29: a track with lost <= max_age that takes no detection in an update
\* call stays in the state with lost one higher and every other field as it
\* was; a call with an empty detection list does this to every such track,
\* creates no track and leaves next_id as it was.
C29_UnmatchedTrackAges ==
    /\ \A id \in DOMAIN prev_tracks :
         (~Expired(prev_tracks[id], max_age) /\ TakenBy(id) = {}) =>
             /\ id \in DOMAIN tracks
             /\ tracks[id].lost = prev_tracks[id].lost + 1
             /\ tracks[id].bbox = prev_tracks[id].bbox
             /\ tracks[id].confidence = prev_tracks[id].confidence
             /\ tracks[id].class_name = prev_tracks[id].class_name
             /\ tracks[id].hits = prev_tracks[id].hits
             /\ tracks[id].start_time = prev_tracks[id].start_time
    /\ detections = <<>> =>
         /\ DOMAIN tracks =
              {id \in DOMAIN prev_tracks : ~Expired(prev_tracks[id], max_age)}
         /\ \A id \in DOMAIN tracks : tracks[id].lost = prev_tracks[id].lost + 1
         /\ next_id = prev_next_id

\* An empty frame aged two tracks, one of them already unmatched before
\* and at lost = max_age, and one confirmed.
C29_Witness ==
    /\ detections = <<>>
    /\ frame_count >= 1
    /\ \E a, b \in DOMAIN tracks :
         /\ a # b
         /\ prev_tracks[a].lost = max_age
         /\ prev_tracks[a].lost > 0
         /\ tracks[a].lost = max_age + 1
         /\ IsConfirmed(prev_tracks[b], n_init)
         /\ tracks[b].lost = prev_tracks[b].lost + 1

\* C30: the hits of a track grow by one on a frame where it takes a
\* detection and stay as they are on a frame where it does not, so they
\* count the frames it was detected on (all frames since its creation
\* exactly when it was never unmatched); the track is in the output
\* exactly when they have reached n_init, and a track that was confirmed
\* stays in the output as long as it is in the state.
C30_HitsNeverDecrease ==
    /\ \A id \in DOMAIN tracks \cap DOMAIN prev_tracks :
         /\ tracks[id].hits =
              prev_tracks[id].hits + (IF TakenBy(id) # {} THEN 1 ELSE 0)
         /\ IsConfirmed(prev_tracks[id], n_init) => id \in OutputIds
    /\ \A id \in DOMAIN tracks :
         /\ tracks[id].hits <= frame_count - streak[id].born + 1
         /\ tracks[id].hits = frame_count - streak[id].born + 1
               <=> streak[id].unbroken
         /\ id \in OutputIds <=> tracks[id].hits >= n_init

\* With n_init = 3, a track that went unmatched for a frame has just taken
\* its third detection and is in the output for the first time.
C30_Witness ==
    /\ n_init = DefaultNInit
    /\ \E id \in DOMAIN tracks \cap DOMAIN prev_tracks :
         /\ ~streak[id].unbroken
         /\ prev_tracks[id].hits = n_init - 1
         /\ tracks[id].hits = n_init
         /\ id \in OutputIds

\* A box of zero area, or inverted in x or in y.
Degenerate(bbox) == bbox[3] <= bbox[1] \/ bbox[4] <= bbox[2]

\* C20: ObjectTracker.update completes on frames holding zero-area or
\* inverted boxes; the IoU of such a box with any track box is 0, a detection
\* with such a box matches no existing track and starts a new one, and a
\* track holding such a box is matched by no detection.
C20_DegenerateBoxesNeverMatch ==
    /\ DOMAIN assigned = 1..Len(detections)
    /\ \A id \in DOMAIN prev_tracks, i \in DOMAIN detections :
         Degenerate(prev_tracks[id].bbox) \/ Degenerate(detections[i].bbox) =>
             /\ IoU(prev_tracks[id].bbox, detections[i].bbox).n = 0
             /\ assigned[i] # id
    /\ \A i \in DOMAIN detections :
         Degenerate(detections[i].bbox) =>
             /\ assigned[i] \notin DOMAIN prev_tracks
             /\ tracks[assigned[i]] = NewTrack(detections[i], now)

\* A malformed detection arrived while a live track of its class held a box
\* with the same centre (a proper one, and a malformed one), and started a
\* track of its own.
C20_Witness ==
    \E i \in DOMAIN detections :
        /\ Degenerate(detections[i].bbox)
        /\ assigned[i] \notin DOMAIN prev_tracks
        /\ \E id \in DOMAIN prev_tracks :
             /\ ~Degenerate(prev_tracks[id].bbox)
             /\ ~Expired(prev_tracks[id], max_age)
             /\ prev_tracks[id].class_name = detections[i].class_name
        /\ \E id \in DOMAIN prev_tracks :
             /\ prev_tracks[id].bbox = detections[i].bbox
             /\ ~Expired(prev_tracks[id], max_age)

(***************************************************************************)
(* Properties of the abandonment detector.                                 *)
(***************************************************************************)
EmittedIds == {emitted[i].track_id : i \in DOMAIN emitted}

\* C1 (as claimed): a bag-class object passed to every update call with no
\* person within proximity has an abandoned_object alert emitted for it once
\* its time without a nearby person exceeds abandonment_threshold, however
\* the calls are spaced.
C1_AlertOnceThresholdExceeded ==
    \A id \in DOMAIN separated_since :
        now - separated_since[id] > abandonment_threshold => id \in EmittedIds

\* C2: at most one abandoned_object alert is ever emitted for a track id, and
\* the alerted set is at all times the set of ids that have alerted so far:
\* an id that entered it is in it in every later state.
C2_OneAlertPerTrack ==
    /\ \A i, j \in DOMAIN emitted :
         i # j => emitted[i].track_id # emitted[j].track_id
    /\ alerted_objects = EmittedIds

\* A track that alerted in an earlier call is still present with no person
\* near, its last record is older than the threshold, and the call returned
\* no alert.
C2_Witness ==
    \E i \in DOMAIN emitted :
        LET id == emitted[i].track_id
        IN  /\ emitted[i].timestamp < now
            /\ id \in DOMAIN separated_since
            /\ now - Last(object_person_associations[id]).timestamp
                 > abandonment_threshold
            /\ alerts = <<>>

\* C3 (as claimed): an alert for T is emitted at time t only if the current
\* unbroken run of calls with T present and no person within proximity
\* began more than abandonment_threshold before t.
C3_AlertOnlyAfterFullRun ==
    \A i \in DOMAIN alerts :
        LET id == alerts[i].track_id
        IN  /\ id \in DOMAIN separated_since
            /\ alerts[i].timestamp - separated_since[id] > abandonment_threshold

\* C3 (amended): an alert for T is emitted at time t only if an earlier call
\* processed T and T's most recent association record, person-nearby or
\* sentinel, is more than abandonment_threshold older than t.
C3_AlertOnlyAfterOldRecord ==
    \A i \in DOMAIN alerts :
        LET id == alerts[i].track_id
        IN  /\ alerts[i].timestamp = now
            /\ id \in DOMAIN object_person_associations
            /\ object_person_associations[id] # <<>>
            /\ now - Last(object_person_associations[id]).timestamp
                 > abandonment_threshold

\* An alert raised by the first no-person observation after a person-nearby
\* record.
C3_Witness ==
    \E i \in DOMAIN alerts :
        LET id == alerts[i].track_id
        IN  /\ separated_since[id] = now
            /\ Last(object_person_associations[id]).person_id # None

\* C4: when an alert is emitted for T at time t, more than
\* abandonment_threshold has passed since every person-nearby record of T,
\* the most recent one included: after a re-association at t_r no alert comes
\* at any t <= t_r + abandonment_threshold.
C4_ClockRestartsAtReassociation ==
    \A i \in DOMAIN alerts :
        LET id == alerts[i].track_id
            records == object_person_associations[id]
        IN  \A k \in DOMAIN records :
                records[k].person_id # None =>
                    alerts[i].timestamp - records[k].timestamp
                        > abandonment_threshold

\* An alert for a track that was separated for no longer than the threshold,
\* then had a person near, then was separated again.
C4_Witness ==
    \E i \in DOMAIN alerts :
        LET id == alerts[i].track_id
            records == object_person_associations[id]
        IN  \E k, m \in DOMAIN records :
                /\ k < m
                /\ records[k].person_id = None
                /\ records[m].person_id # None
                /\ records[m].timestamp - records[k].timestamp
                     <= abandonment_threshold

\* The ids alerted before the last update call.
AlertedBefore ==
    {emitted[i].track_id : i \in 1..(Len(emitted) - Len(alerts))}

\* The bag-class objects of the last call that it got to look at: not alerted
\* before the call.
ProcessedBags ==
    {tracked_objects[i] : i \in {j \in DOMAIN tracked_objects :
        /\ tracked_objects[j].class_name \in BagClasses
        /\ tracked_objects[j].track_id \notin AlertedBefore}}

\* The time of the call before the last one whose list held bag id (for an
\* id of the last call's list), or None.
PreviousObservation(id) ==
    IF Len(observed[id]) >= 2 THEN observed[id][Len(observed[id]) - 1] ELSE None

Timestamps(records) == [k \in DOMAIN records |-> records[k].timestamp]

C22_SentinelOnlyWithoutPriorRecord ==
    \A b \in ProcessedBags :
        LET id == b.track_id
        IN  (~PersonWithin(b, tracked_objects) /\ id \notin alerted_objects) =>
                object_person_associations[id] =
                    IF id \in DOMAIN prev_associations /\ prev_associations[id] # <<>>
                    THEN prev_associations[id]
                    ELSE <<Sentinel(now)>>

\* C23 (as claimed): after an update call on a list in which a person is
\* within proximity of a bag-class object, that object's id is not in the
\* abandoned set.
C23_PersonNearbyClearsAbandoned ==
    \A i \in DOMAIN tracked_objects :
        ( /\ tracked_objects[i].class_name \in BagClasses
          /\ PersonWithin(tracked_objects[i], tracked_objects) )
            => tracked_objects[i].track_id \notin abandoned_objects

CentreGap4(a, b) ==
    LET dx == (a.bbox[1] + a.bbox[3]) - (b.bbox[1] + b.bbox[3])
        dy == (a.bbox[2] + a.bbox[4]) - (b.bbox[2] + b.bbox[4])
    IN  unit * unit * (dx * dx + dy * dy)

\* The positions in the last call's list of the persons within proximity
\* of object o.
PersonsWithin(o) ==
    {i \in DOMAIN tracked_objects :
        /\ tracked_objects[i].class_name = "person"
        /\ CentreGap4(tracked_objects[i], o)
             < 4 * proximity_threshold * proximity_threshold}

\* C37: the record appended for a bag with persons within proximity holds
\* the id of the first of them in list order and that person's distance
\* from the bag, whether or not another one is nearer; the distance of
\* every person record is below proximity_threshold.
C37_FirstPersonInListOrder ==
    /\ \A o \in ProcessedBags :
         PersonsWithin(o) # {} =>
             LET first == tracked_objects[Min(PersonsWithin(o))]
                 record == Last(object_person_associations[o.track_id])
             IN  /\ record.timestamp = now
                 /\ record.person_id = first.track_id
                 /\ record.distance >= 0
                 /\ record.distance * record.distance = CentreGap4(first, o)
    /\ \A id \in DOMAIN object_person_associations :
         \A k \in DOMAIN object_person_associations[id] :
             LET record == object_person_associations[id][k]
             IN  record.person_id # None =>
                     /\ record.distance >= 0
                     /\ record.distance < 2 * proximity_threshold

\* Two persons are within proximity of a bag, the second in the list
\* nearer than the first, and the record names the first.
C37_Witness ==
    \E o \in ProcessedBags :
        \E i, k \in PersonsWithin(o) :
            /\ i = Min(PersonsWithin(o))
            /\ CentreGap4(tracked_objects[k], o) < CentreGap4(tracked_objects[i], o)
            /\ Last(object_person_associations[o.track_id]).person_id
                 = tracked_objects[i].track_id
            /\ Last(object_person_associations[o.track_id]).distance > 0

(***************************************************************************)
(* Properties of the anomaly detector.                                     *)
(***************************************************************************)
\* The alerts of the last AnomalyDetector.update call of the given type and
\* track id.
AlertsOf(type, track_id) ==
    SelectSeq(anomaly_alerts,
              LAMBDA a : a.type = type /\ a.track_id = track_id)

\* C13: once an AnomalyDetector.update call has emitted an anomaly alert of
\* any type for a track id, no later call emits an alert for that id: all
\* alerts of one id come from one call, and the id stays in alerted_tracks.
C13_AnomalyOneShot ==
    /\ \A i, j \in DOMAIN anomaly_emitted :
         anomaly_emitted[i].alert.track_id = anomaly_emitted[j].alert.track_id
             => anomaly_emitted[i].call = anomaly_emitted[j].call
    /\ \A i \in DOMAIN anomaly_emitted :
         anomaly_emitted[i].alert.track_id \in alerted_tracks

\* A person who got a loitering alert in an earlier call is in the list of
\* the last call, where the checks on the history with the current sample
\* would fire again, and the call returned nothing.
C13_Witness ==
    /\ anomaly_alerts = <<>>
    /\ \E i \in DOMAIN anomaly_emitted, k \in DOMAIN tracked_objects :
         LET id == anomaly_emitted[i].alert.track_id
         IN  /\ anomaly_emitted[i].alert.type = "loitering"
             /\ anomaly_emitted[i].call < anomaly_calls
             /\ tracked_objects[k].track_id = id
             /\ CheckAnomalies(id, AppendSample(movement_history[id],
                                    Sample(tracked_objects[k], now)), now) # <<>>

\* The persons of the last call that the call analysed: their history ends
\* with the sample of this call.
AnalysedIds ==
    {tracked_objects[k].track_id : k \in {j \in DOMAIN tracked_objects :
        /\ tracked_objects[j].class_name = "person"
        /\ tracked_objects[j].track_id \in DOMAIN movement_history
        /\ Last(movement_history[tracked_objects[j].track_id]).timestamp = now}}

\* The last step of the history exceeds speed_threshold and 1.5 times the
\* mean of the earlier steps.
LastStepIsSpike(history) ==
    LET speeds == Speeds(history)
        others == SubSeq(speeds, 1, Len(speeds) - 1)
    IN  /\ unit * Last(speeds) > 2 * speed_threshold
        /\ 2 * Len(others) * Last(speeds) > 3 * SumSeq(others)

\* C14: a person whose history has at least 3 samples, the last step above
\* speed_threshold and above 1.5 times the mean of the earlier steps (steps
\* of 60 then 100 px with speed_threshold 25), gets exactly one speed_spike
\* alert from the update call.
C14_SpeedSpikeFromThreeSamples ==
    \A id \in AnalysedIds :
        (Len(movement_history[id]) >= 3 /\ LastStepIsSpike(movement_history[id]))
            => Len(AlertsOf("speed_spike", id)) = 1

\* C15: a person whose retained history holds 6 or more samples enclosed in
\* an area below 2000 px^2, the oldest more than loitering_threshold seconds
\* old, gets exactly one loitering alert from the update call.
C15_LoiteringFromSixSamples ==
    \A id \in AnalysedIds :
        ( /\ Len(movement_history[id]) >= 6
          /\ AreaCovered4(movement_history[id]) < 4 * LoiteringArea
          /\ now - movement_history[id][1].timestamp > loitering_threshold )
            => Len(AlertsOf("loitering", id)) = 1

\* The steps between the last 5 positions of the history.
LastSteps(history) ==
    [i \in 1..4 |-> Minus(history[Len(history) - 4 + i].position,
                          history[Len(history) - 5 + i].position)]

\* C16: with expected flow (1, 0) and counterflow_threshold 0.7, a person
\* analysed by the call whose last 5 retained positions have an average
\* displacement that is a positive multiple of (-1, 0) gets exactly one
\* counterflow alert from that call.
C16_CounterflowAlert ==
    \A id \in AnalysedIds :
        ( /\ Len(movement_history[id]) >= 5
          /\ SumVectors(LastSteps(movement_history[id]))[1] < 0
          /\ SumVectors(LastSteps(movement_history[id]))[2] = 0 )
            => Len(AlertsOf("counterflow", id)) = 1

\* A person took four steps in a row in the -x direction and the call
\* returned a counterflow alert for them.
C16_Witness ==
    \E id \in AnalysedIds :
        /\ Len(movement_history[id]) >= 5
        /\ \A i \in 1..4 :
             /\ LastSteps(movement_history[id])[i][1] < 0
             /\ LastSteps(movement_history[id])[i][2] = 0
        /\ AlertsOf("counterflow", id) # <<>>

\* The alerts of the last call for the given track id, of every type.
AlertsFor(track_id) ==
    SelectSeq(anomaly_alerts, LAMBDA a : a.track_id = track_id)

\* The history is long enough, small enough and old enough for loitering.
Loiters(history) ==
    /\ Len(history) >= MinLoiteringHistory
    /\ AreaCovered4(history) < 4 * LoiteringArea
    /\ now - history[1].timestamp > loitering_threshold

\* C35: for a person not alerted before, one update call evaluates all
\* three checks on the history with the current sample: each check whose
\* condition holds contributes its alert whatever the other two did, so
\* the call returns at most one alert of each type and at most three for
\* the id, and the id is in alerted_tracks after the call exactly when the
\* call returned an alert for it.
C35_AllChecksRunBeforeSuppression ==
    /\ \A i \in DOMAIN anomaly_alerts : anomaly_alerts[i].track_id \in AnalysedIds
    /\ \A id \in AnalysedIds :
         LET h == movement_history[id]
         IN  /\ Len(AlertsFor(id)) <= 3
             /\ \A t \in {"speed_spike", "loitering", "counterflow"} :
                  Len(AlertsOf(t, id)) <= 1
             /\ Len(AlertsFor(id))
                  = Len(AlertsOf("speed_spike", id)) + Len(AlertsOf("loitering", id))
                      + Len(AlertsOf("counterflow", id))
             /\ Len(h) >= MinHistory =>
                  /\ AlertsOf("speed_spike", id) # <<>> <=> LastStepIsSpike(h)
                  /\ AlertsOf("loitering", id) # <<>> <=> Loiters(h)
                  /\ AlertsOf("counterflow", id) # <<>>
                       <=> SumVectors(LastSteps(h))[1] < 0
             /\ id \in alerted_tracks <=> AlertsFor(id) # <<>>

\* One call returned a speed_spike, a loitering and a counterflow alert for
\* the same person, who had no alert before.
C35_Witness ==
    \E id \in AnalysedIds :
        /\ Len(AlertsFor(id)) = 3
        /\ AlertsOf("speed_spike", id) # <<>>
        /\ AlertsOf("loitering", id) # <<>>
        /\ AlertsOf("counterflow", id) # <<>>
        /\ Len(anomaly_emitted) = 3

\* C36: the counterflow check returns no alert when the last 5 positions
\* give no direction: all five identical, or non-zero displacements that
\* sum to the zero vector; the call completes, with the sample appended
\* and the alerts of the other two checks returned.
C36_NoDirectionNoCounterflow ==
    \A id \in AnalysedIds :
        LET h == movement_history[id]
        IN  Len(h) >= CounterflowWindow =>
              /\ (\A i \in 1..4 : LastSteps(h)[i] = <<0, 0>>)
                   => AlertsOf("counterflow", id) = <<>>
              /\ SumVectors(LastSteps(h)) = <<0, 0>> =>
                   /\ AlertsOf("counterflow", id) = <<>>
                   /\ AlertsOf("speed_spike", id) # <<>> <=> LastStepIsSpike(h)
                   /\ AlertsOf("loitering", id) # <<>> <=> Loiters(h)

\* Three steps to the right and one dash back to where the person began:
\* the call returns the speed_spike alert and no counterflow alert.
C36_Witness ==
    \E id \in AnalysedIds :
        LET h == movement_history[id]
        IN  /\ Len(h) >= CounterflowWindow
            /\ \A i \in 1..4 : LastSteps(h)[i] # <<0, 0>>
            /\ LastSteps(h)[4][1] < 0
            /\ SumVectors(LastSteps(h)) = <<0, 0>>
            /\ AlertsOf("speed_spike", id) # <<>>
            /\ AlertsOf("counterflow", id) = <<>>

\* The last n elements of a sequence (all of it when it is shorter).
LastN(seq, n) ==
    IF Len(seq) <= n THEN seq ELSE SubSeq(seq, Len(seq) - n + 1, Len(seq))

\* C17: the movement history of every person track id never holds more than
\* 30 samples and is always the most recent (at most 30) samples appended
\* for that id, in arrival order.
C17_HistoryIsLast30 ==
    /\ DOMAIN movement_history = DOMAIN arrivals
    /\ \A id \in DOMAIN movement_history :
         /\ Len(movement_history[id]) <= HistoryCapacity
         /\ movement_history[id] = LastN(arrivals[id], HistoryCapacity)

\* More than 30 samples have been appended for a person: the history holds
\* 30 and the first sample is no longer in it.
C17_Witness ==
    \E id \in DOMAIN movement_history :
        /\ Len(arrivals[id]) > HistoryCapacity
        /\ Len(movement_history[id]) = HistoryCapacity
        /\ Head(movement_history[id]) # Head(arrivals[id])

\* C31: the time span of the loitering check runs from the oldest of the
\* at most 30 retained samples, so for a motionless person sampled every
\* Period seconds it never exceeds 29 * Period: no loitering alert is ever
\* returned when 29 * Period <= loitering_threshold, and one that is
\* returned comes from a retained span above loitering_threshold.
C31_SpanWithinRetainedSamples ==
    \A id \in AnalysedIds :
        LET h == movement_history[id]
        IN  /\ now - h[1].timestamp = (Len(h) - 1) * Period
            /\ now - h[1].timestamp <= (HistoryCapacity - 1) * Period
            /\ (HistoryCapacity - 1) * Period <= loitering_threshold
                 => anomaly_emitted = <<>>
            /\ AlertsOf("loitering", id) # <<>>
                 => now - h[1].timestamp > loitering_threshold

\* The person has stood still for longer than loitering_threshold, the
\* first samples have left the history, and no alert was ever returned.
C31_Witness ==
    \E id \in AnalysedIds :
        /\ Len(arrivals[id]) > HistoryCapacity
        /\ (HistoryCapacity - 1) * Period <= loitering_threshold
        /\ now - arrivals[id][1].timestamp > loitering_threshold
        /\ \A i \in DOMAIN arrivals[id] :
             arrivals[id][i].position = arrivals[id][1].position
        /\ anomaly_emitted = <<>>

\* The persons of the last call's list that had not alerted before it.
AlertedTracksBefore ==
    {anomaly_emitted[i].alert.track_id :
        i \in {j \in DOMAIN anomaly_emitted : anomaly_emitted[j].call < anomaly_calls}}

FreshPersonIds ==
    {tracked_objects[k].track_id : k \in {j \in DOMAIN tracked_objects :
        /\ tracked_objects[j].class_name = "person"
        /\ tracked_objects[j].track_id \notin AlertedTracksBefore}}

\* All positions of the history share their x or share their y.
OnAxisLine(history) ==
    \/ \A i \in DOMAIN history : history[i].position[1] = history[1].position[1]
    \/ \A i \in DOMAIN history : history[i].position[2] = history[1].position[2]

\* C32: a person analysed by the call whose retained positions lie on an
\* axis-aligned line has an enclosing area of 0 and, with 10 or more
\* retained samples the oldest of which is more than loitering_threshold
\* old, gets a loitering alert from the call, however far they travelled.
C32_StraightWalkerLoiters ==
    \A id \in AnalysedIds :
        OnAxisLine(movement_history[id]) =>
            /\ AreaCovered4(movement_history[id]) = 0
            /\ ( /\ Len(movement_history[id]) >= MinLoiteringHistory
                 /\ now - movement_history[id][1].timestamp > loitering_threshold )
                  => Len(AlertsOf("loitering", id)) = 1

\* A person who walked nine steps to the right, 540 px or more in all, with
\* no alert on the way, gets a loitering alert.
C32_Witness ==
    \E id \in AnalysedIds :
        LET h == movement_history[id]
        IN  /\ Len(h) >= MinLoiteringHistory
            /\ \A i \in 1..(Len(h) - 1) : h[i + 1].position[1] > h[i].position[1]
            /\ unit * (Last(h).position[1] - h[1].position[1]) >= 2 * 540
            /\ AlertsOf("loitering", id) # <<>>

EqualSteps(history) ==
    \A i, j \in DOMAIN Speeds(history) : Speeds(history)[i] = Speeds(history)[j]

\* C34: a speed_spike alert is returned only for a history whose last step
\* exceeds speed_threshold and 1.5 times the mean of the earlier steps; a
\* person all of whose retained steps have the same length gets none,
\* however long the steps are.
C34_SteadyWalkerNoSpike ==
    \A id \in AnalysedIds :
        /\ AlertsOf("speed_spike", id) # <<>> => LastStepIsSpike(movement_history[id])
        /\ EqualSteps(movement_history[id]) => AlertsOf("speed_spike", id) = <<>>

\* A person analysed for the fifth time or later whose every step was 60
\* px, twice the largest speed_threshold, has no speed_spike alert.
C34_Witness ==
    \E id \in AnalysedIds :
        /\ Len(movement_history[id]) >= MinHistory
        /\ EqualSteps(movement_history[id])
        /\ unit * Speeds(movement_history[id])[1] = 2 * 60
        /\ \A i \in DOMAIN anomaly_emitted :
             anomaly_emitted[i].alert.type # "speed_spike"

\* C40: reset_alerts empties alerted_tracks and changes no movement
\* history; in the first update call after it every person of the list is
\* analysed, alerted before or not: the sample of the call is appended to
\* the history the person had at the reset.
C40_ResetClearsOnlyAlerted ==
    /\ at_reset.calls = anomaly_calls =>
         /\ alerted_tracks = {}
         /\ movement_history = at_reset.history
    /\ (at_reset.calls # None /\ anomaly_calls = at_reset.calls + 1) =>
         \A k \in DOMAIN tracked_objects :
             LET id == tracked_objects[k].track_id
                 before == IF id \in DOMAIN at_reset.history
                           THEN at_reset.history[id] ELSE <<>>
             IN  tracked_objects[k].class_name = "person" =>
                     /\ id \in AnalysedIds
                     /\ movement_history[id]
                          = LastN(before \o <<Sample(tracked_objects[k], now)>>,
                                  HistoryCapacity)

\* A person who got an alert before the reset gets another one from the
\* first call after it.
C40_Witness ==
    /\ at_reset.calls # None
    /\ anomaly_calls = at_reset.calls + 1
    /\ \E i \in DOMAIN anomaly_emitted, j \in DOMAIN anomaly_alerts :
         /\ anomaly_emitted[i].call <= at_reset.calls
         /\ anomaly_emitted[i].alert.track_id = anomaly_alerts[j].track_id

(***************************************************************************)
(* Properties of the whole pipeline.                                       *)
(***************************************************************************)
\* The tracks of the person class that the frame left unmatched.
StalePersons ==
    {id \in DOMAIN tracks :
        tracks[id].class_name = "person" /\ tracks[id].lost > 0}

\* The list of the last frame holds track id at the given box.
ListedAt(id, bbox) ==
    \E k \in DOMAIN tracked_objects :
        tracked_objects[k].track_id = id /\ tracked_objects[k].bbox = bbox

\* C38: a confirmed person track that the frame's detections did not match
\* is in the list the tracker returns, at the box it had before the frame,
\* for as long as the track exists; a bag the abandonment detector looks at
\* with such a person within proximity gets a person record at the time of
\* the frame and no alert, so an alert for a bag implies that no confirmed
\* person track within proximity of it exists.
C38_StalePersonKeepsBagAttended ==
    /\ \A id \in StalePersons :
         /\ id \in DOMAIN prev_tracks
         /\ tracks[id].bbox = prev_tracks[id].bbox
         /\ tracks[id].hits >= n_init => ListedAt(id, prev_tracks[id].bbox)
    /\ \A o \in ProcessedBags :
         PersonsWithin(o) # {} =>
             /\ Last(object_person_associations[o.track_id]).timestamp = now
             /\ Last(object_person_associations[o.track_id]).person_id # None
             /\ \A i \in DOMAIN alerts : alerts[i].track_id # o.track_id
    /\ \A i \in DOMAIN alerts :
         \A id \in DOMAIN tracks :
             ( /\ tracks[id].class_name = "person"
               /\ tracks[id].hits >= n_init )
             => \A k \in DOMAIN tracked_objects :
                    tracked_objects[k].track_id = alerts[i].track_id
                        => CentreGap4(TrackedObject(id, tracks[id]), tracked_objects[k])
                             >= 4 * proximity_threshold * proximity_threshold

\* The person was not detected in the frame, the bag's last record before
\* the frame is older than abandonment_threshold, and the bag got a record
\* naming the person instead of an alert.
C38_Witness ==
    \E id \in StalePersons, o \in ProcessedBags :
        /\ o.track_id \in DOMAIN prev_associations
        /\ now - Last(prev_associations[o.track_id]).timestamp > abandonment_threshold
        /\ Last(object_person_associations[o.track_id]).person_id = id
        /\ Last(object_person_associations[o.track_id]).timestamp = now
        /\ alerts = <<>>

\* The object of the last frame's list with the given track id is of one
\* of the classes and its track has the hits of a confirmed one.
ConfirmedOfClass(track_id, classes) ==
    /\ \E k \in DOMAIN tracked_objects :
         /\ tracked_objects[k].track_id = track_id
         /\ tracked_objects[k].class_name \in classes
    /\ track_id \in DOMAIN tracks
    /\ tracks[track_id].hits >= n_init
    /\ tracks[track_id].class_name \in classes

\* C39: every alert of a frame carries the track id of an object of the
\* list the tracker returned for that frame, of a bag class for an
\* abandoned_object alert and of the person class for a speed_spike,
\* loitering or counterflow alert, and that id is the id of a track with
\* hits >= n_init.
C39_AlertsNameConfirmedTracks ==
    /\ \A i \in DOMAIN alerts :
         /\ alerts[i].type = "abandoned_object"
         /\ ConfirmedOfClass(alerts[i].track_id, BagClasses)
    /\ \A i \in DOMAIN anomaly_alerts :
         /\ anomaly_alerts[i].type \in {"speed_spike", "loitering", "counterflow"}
         /\ ConfirmedOfClass(anomaly_alerts[i].track_id, {"person"})

\* One frame in which both detectors returned an alert while the tracker
\* also holds a track that is unconfirmed or went unmatched.
C39_Witness ==
    /\ alerts # <<>>
    /\ anomaly_alerts # <<>>
    /\ \E id \in DOMAIN tracks : tracks[id].hits < n_init \/ tracks[id].lost > 0

(***************************************************************************)
(* Properties of the two detectors run on the same frame.                  *)
(***************************************************************************)
\* The ids of the objects of the list that are neither persons nor bags.
OtherClassIds ==
    {tracked_objects[k].track_id : k \in {j \in DOMAIN tracked_objects :
        tracked_objects[j].class_name
            \notin {"person", "backpack", "handbag", "suitcase", "bag"}}}

\* C18: an object whose class is neither 'person' nor a bag class, standing
\* still or moving, never causes an alert carrying its track id, from
\* AbandonmentDetector.update or from AnomalyDetector.update.
C18_NoAlertForOtherClasses ==
    /\ \A i \in DOMAIN emitted : emitted[i].track_id \notin OtherClassIds
    /\ \A i \in DOMAIN alerts : alerts[i].track_id \notin OtherClassIds
    /\ \A i \in DOMAIN anomaly_emitted :
         anomaly_emitted[i].alert.track_id \notin OtherClassIds
    /\ \A i \in DOMAIN anomaly_alerts :
         anomaly_alerts[i].track_id \notin OtherClassIds

\* Five frames or more are done, a bag and a person have been alerted, and
\* the list holds the chair that never moved and the chair that moved left
\* on every frame, both with no person near.
C18_Witness ==
    /\ ab_i > Len(tracked_objects)
    /\ an_i > Len(tracked_objects)
    /\ anomaly_calls >= MinHistory
    /\ emitted # <<>>
    /\ anomaly_emitted # <<>>
    /\ {7, 8} \subseteq OtherClassIds
    /\ \A k \in DOMAIN tracked_objects :
         tracked_objects[k].class_name = "chair"
             => ~PersonWithin(tracked_objects[k], tracked_objects)

\* C19: whatever the interleaving of the two update calls of a frame, when
\* a call has returned its alerts and its detector's state are those of the
\* call run alone on the state the frame began with; the list and the
\* tracker's state stay as they were when the frame began.
C19_DetectorsIndependent ==
    /\ tracked_objects = frame_start.objs
    /\ trackerVars = frame_start.tracker
    /\ ab_i > Len(tracked_objects) =>
         LET r == AbandonmentResult(tracked_objects, now, abandonment_threshold,
                                    frame_start.associations, frame_start.abandoned,
                                    frame_start.alerted)
         IN  /\ alerts = r.alerts
             /\ object_person_associations = r.associations
             /\ abandoned_objects = r.abandoned
             /\ alerted_objects = r.alerted
    /\ an_i > Len(tracked_objects) =>
         LET r == AnomalyResult(tracked_objects, now, frame_start.history,
                                frame_start.alerted_tracks)
         IN  /\ anomaly_alerts = r.alerts
             /\ movement_history = r.history
             /\ alerted_tracks = r.alerted

\* Both calls of the frame have returned, each with an alert.
C19_Witness ==
    /\ ab_i > Len(tracked_objects)
    /\ an_i > Len(tracked_objects)
    /\ alerts # <<>>
    /\ anomaly_alerts # <<>>
====
